---- MODULE Spec2Model ----
(***************************************************************************)
(* yt-digest: the DailyWorkflow pipeline (workflow/daily.py) over the      *)
(* MongoDB repositories (db/*.py), as a state machine.                     *)
(*                                                                         *)
(* Python values are tagged records [t, i, s]; an Optional result is a     *)
(* sequence of length 0 or 1; a call that may raise returns a record with  *)
(* an exc field ("" when nothing was raised).                              *)
(***************************************************************************)
EXTENDS Integers, Sequences, FiniteSets, TLC

(* ---------------------------------------------------------------- bounds *)
\* records delivered by all fetch() calls of one run, together
MaxRecords == 3
\* results delivered by all search() calls of one run, together
MaxVideos == 2
\* last value of the store clock (milliseconds, the store's precision)
MaxClock == 1
\* calls made on the repositories in the repository specification
MaxCalls == 3
\* length of a region code a caller passes
MaxCodeLen == 2
\* documents stored by the calls that construct entities
MaxDocs == 2
\* Keyword ids handed to search_videos when it is called on its own
MaxIds == 2
\* items of one videos.list answer that search() has to skip
MaxSkipped == 1
\* error lines written by the calls that construct entities
MaxLogged == 1

(* ------------------------------------------------------- python values *)
PyInt(n) == [t |-> "int", i |-> n, s |-> ""]
PyStr(x) == [t |-> "str", i |-> 0, s |-> x]
PyNone == [t |-> "none", i |-> 0, s |-> ""]
PyBool(b) == [t |-> "bool", i |-> IF b THEN 1 ELSE 0, s |-> ""]
\* a float, by its text
PyFloat(x) == [t |-> "float", i |-> 0, s |-> x]

DecDigits == <<"0", "1", "2", "3", "4", "5", "6", "7", "8", "9">>

\* str(v) for the values the fetchers deliver
PyStrOf(v) ==
    CASE v.t = "str" -> v.s
      [] v.t = "int" -> DecDigits[v.i + 1]
      [] OTHER -> "None"

\* int(v): ValueError for text that is no number, TypeError for None
PyIntOf_NoRaise(v) ==
    CASE v.t = "int" -> [exc |-> "", val |-> v.i]
      [] v.t = "str" /\ (\E d \in 1..Len(DecDigits) : DecDigits[d] = v.s) ->
            [exc |-> "", val |-> (CHOOSE d \in 1..Len(DecDigits) : DecDigits[d] = v.s) - 1]
      [] OTHER -> [exc |-> "", val |-> 0]

PyIntOf(v) ==
    CASE v.t = "int" -> [exc |-> "", val |-> v.i]
      [] v.t = "str" /\ (\E d \in 1..Len(DecDigits) : DecDigits[d] = v.s) ->
            [exc |-> "", val |-> (CHOOSE d \in 1..Len(DecDigits) : DecDigits[d] = v.s) - 1]
      [] v.t = "str" -> [exc |-> "ValueError", val |-> 0]
      [] OTHER -> [exc |-> "TypeError", val |-> 0]

(* ------------------------------------------------------------ ObjectId *)
\* str(ObjectId) is 24 lower-case hexadecimal digits
OidLen == 24
HexDigits == <<"0", "1", "2", "3", "4", "5", "6", "7", "8", "9",
               "a", "b", "c", "d", "e", "f">>
HexValue(c) == (CHOOSE d \in 1..16 : HexDigits[d] = c) - 1
IsHex(c) == \E d \in 1..16 : HexDigits[d] = c

\* str(oid), for the identifiers the model allocates (below 256)
OidStr(n) ==
    [k \in 1..OidLen |->
        IF k = OidLen THEN HexDigits[(n % 16) + 1]
        ELSE IF k = OidLen - 1 THEN HexDigits[((n \div 16) % 16) + 1]
        ELSE "0"]

\* ObjectId(s): InvalidId unless s is 24 hexadecimal digits
ObjectId(s) ==
    IF Len(s) = OidLen /\ \A k \in 1..Len(s) : IsHex(s[k])
    THEN [exc |-> "", val |-> 16 * HexValue(s[OidLen - 1]) + HexValue(s[OidLen])]
    ELSE [exc |-> "InvalidId", val |-> 0]

(* ------------------------------------------------------------- BaseDB *)
\* a collection is the sequence of its documents in insertion order

\* BaseDB.insert_one: both stamps are overwritten by two reads of the clock
InsertOne_Replace(coll, doc, oid, t1, t2) ==
    <<[doc EXCEPT !._id = oid, !.created_at = t1, !.updated_at = t2]>>

InsertOne_Twice(coll, doc, oid, t1, t2) ==
    coll \o <<[doc EXCEPT !._id = oid, !.created_at = t1, !.updated_at = t2],
              [doc EXCEPT !._id = oid, !.created_at = t1, !.updated_at = t2]>>

InsertOne(coll, doc, oid, t1, t2) ==
    Append(coll, [doc EXCEPT !._id = oid, !.created_at = t1, !.updated_at = t2])

\* collection.find_one({'_id': oid}): the first match, or None
FindOne(coll, oid) ==
    LET hits == SelectSeq(coll, LAMBDA d : d._id = oid)
    IN IF hits = <<>> THEN <<>> ELSE <<Head(hits)>>

\* collection.find_one({field: value}): the first document whose field has the
\* value, or None; a document without the field matches the value None only
FindOneBy(coll, field, value) ==
    LET hits == SelectSeq(coll, LAMBDA d : IF field \in DOMAIN d THEN d[field] = value
                                          ELSE value = PyNone)
    IN IF hits = <<>> THEN <<>> ELSE <<Head(hits)>>

\* BaseDB.find_by_id: the conversion is outside any handler
FindById(coll, idstr) ==
    LET o == ObjectId(idstr)
    IN IF o.exc # "" THEN [exc |-> o.exc, res |-> <<>>]
       ELSE [exc |-> "", res |-> FindOne(coll, o.val)]

\* BaseDB.update_one: $set of the fields and of a fresh updated_at on the first
\* match; modified_count counts the documents the $set changed
UpdateOne(coll, oid, field, value, now) ==
    LET hits == {k \in 1..Len(coll) : coll[k]._id = oid}
    IN IF hits = {} THEN [coll |-> coll, modified |-> 0]
       ELSE LET k == CHOOSE x \in hits : \A y \in hits : x <= y
                d == [coll[k] EXCEPT ![field] = value, !.updated_at = now]
            IN [coll |-> [coll EXCEPT ![k] = d],
                modified |-> IF d = coll[k] THEN 0 ELSE 1]

\* the two reads of the clock in insert_one: time never runs backwards and the
\* model stops the clock at MaxClock
ClockReads(now) ==
    {r \in (now..MaxClock) \X (now..MaxClock) : r[1] <= r[2] /\ r[2] <= now + 2}

(* -------------------------------------------------- util/fmt_parser.py *)
\* text is a sequence of one-character strings
IsDigit(c) == \E d \in 1..10 : DecDigits[d] = c
DigitValue(c) == (CHOOSE d \in 1..10 : DecDigits[d] = c) - 1

RECURSIVE DigitsValue(_)
DigitsValue(s) ==
    IF s = <<>> THEN 0
    ELSE 10 * DigitsValue(SubSeq(s, 1, Len(s) - 1)) + DigitValue(s[Len(s)])

\* int(text): ValueError unless the text is a run of digits
IntOfText(s) ==
    IF s # <<>> /\ \A k \in 1..Len(s) : IsDigit(s[k])
    THEN [exc |-> "", val |-> DigitsValue(s)]
    ELSE [exc |-> "ValueError", val |-> 0]

\* text.replace('PT', '')
RECURSIVE RemovePT(_)
RemovePT(s) ==
    IF Len(s) < 2 THEN s
    ELSE IF s[1] = "P" /\ s[2] = "T" THEN RemovePT(SubSeq(s, 3, Len(s)))
    ELSE <<s[1]>> \o RemovePT(Tail(s))

Occurrences(s, c) == Cardinality({k \in 1..Len(s) : s[k] = c})
FirstIndex(s, c) == CHOOSE k \in 1..Len(s) : s[k] = c /\ \A j \in 1..(k - 1) : s[j] # c

\* one "if X in duration" block of parse_duration: `a, b = duration.split(X)` needs
\* exactly one X, and int(a) a number; gives the seconds so far and the rest
DurationUnit(st, c, factor) ==
    IF st.exc # "" \/ Occurrences(st.rest, c) = 0 THEN st
    ELSE IF Occurrences(st.rest, c) > 1 THEN [st EXCEPT !.exc = "ValueError"]
    ELSE LET k == FirstIndex(st.rest, c)
             n == IntOfText(SubSeq(st.rest, 1, k - 1))
         IN IF n.exc # "" THEN [st EXCEPT !.exc = n.exc]
            ELSE [exc |-> "", seconds |-> st.seconds + n.val * factor,
                  rest |-> SubSeq(st.rest, k + 1, Len(st.rest))]

parse_duration_HoursAsMinutes(duration) ==
    LET st0 == [exc |-> "", seconds |-> 0, rest |-> RemovePT(duration)]
        st == DurationUnit(DurationUnit(DurationUnit(st0, "H", 60), "M", 60), "S", 1)
    IN [exc |-> st.exc, val |-> st.seconds]

parse_duration(duration) ==
    LET st0 == [exc |-> "", seconds |-> 0, rest |-> RemovePT(duration)]
        st == DurationUnit(DurationUnit(DurationUnit(st0, "H", 3600), "M", 60), "S", 1)
    IN [exc |-> st.exc, val |-> st.seconds]

(* --------------------------------------------------------- lib/region.py *)
\* a region code is a sequence of characters; a character is a one-letter string,
\* but for two letters outside ASCII that are named by their code points
KelvinSign == "U+212A"
LongS == "U+017F"
UpperLetters == <<"A", "B", "C", "D", "E", "F", "G", "H", "I", "J", "K", "L", "M",
                  "N", "O", "P", "Q", "R", "S", "T", "U", "V", "W", "X", "Y", "Z">>
LowerLetters == <<"a", "b", "c", "d", "e", "f", "g", "h", "i", "j", "k", "l", "m",
                  "n", "o", "p", "q", "r", "s", "t", "u", "v", "w", "x", "y", "z">>
IsLetterOf(tab, c) == \E k \in 1..Len(tab) : tab[k] = c
LetterIndex(tab, c) == CHOOSE k \in 1..Len(tab) : tab[k] = c

\* str.upper() on one character
UpperChar(c) ==
    CASE IsLetterOf(LowerLetters, c) -> UpperLetters[LetterIndex(LowerLetters, c)]
      [] c = LongS -> "S"
      [] OTHER -> c
Upper(code) == [k \in 1..Len(code) |-> UpperChar(code[k])]

\* the values of the members of Region, lines 8-14
RegionValues ==
    {<<"T", "W">>, <<"H", "K">>, <<"J", "P">>, <<"K", "R">>, <<"U", "S">>,
     <<"S", "G">>, <<"G", "L", "O", "B", "A", "L">>}

\* the region codes the workflow handles as text, and their characters
Chars(text) ==
    CASE text = "TW" -> <<"T", "W">>
      [] text = "US" -> <<"U", "S">>
      [] text = "JP" -> <<"J", "P">>
      [] text = "tw" -> <<"t", "w">>
      [] OTHER -> <<"x", "x">>
Text(code) == CHOOSE text \in {"TW", "US", "JP", "tw", "xx"} : Chars(text) = code

\* Region.from_code: the member whose value is code.upper(), given by its value, or
\* None when Region(...) raises ValueError
from_code_DefaultsToTaiwan(code) ==
    IF Upper(code) \in RegionValues THEN <<Upper(code)>> ELSE <<<<"T", "W">>>>

from_code(code) ==
    IF Upper(code) \in RegionValues THEN <<Upper(code)>> ELSE <<>>

\* Region.is_valid_code
is_valid_code(code) == Upper(code) \in RegionValues

\* KeywordsFetcher.__init__ with a code string, lines 17-19 of keywords/base.py
FetcherInit(code) ==
    LET region == from_code(code)
    IN IF region = <<>> THEN [exc |-> "ValueError", region |-> <<>>]
       ELSE [exc |-> "", region |-> region]

(* ---------------------------------------------------------- KeywordsDB *)
IsStr(v) == v.t = "str"
\* isinstance(v, int)
IsInt_AcceptsNumbers(v) == v.t \in {"int", "bool", "float"}

IsInt(v) == v.t \in {"int", "bool"}

\* insert_keyword, lines 33-51: the type validation
KeywordTypeError(p) ==
    ~IsStr(p.keyword) \/ ~IsInt(p.rank) \/ ~IsInt(p.score)
    \/ ~IsStr(p.platform) \/ ~IsStr(p.region) \/ p.metadata.t \notin {"dict", "none"}

\* insert_keyword, lines 55-67: the document
KeywordDoc(p, now) ==
    [_id |-> 0, keyword |-> p.keyword, rank |-> p.rank, score |-> p.score,
     platform |-> p.platform, region |-> p.region,
     metadata |-> IF p.metadata.t = "none"
                  THEN [t |-> "dict", has_region |-> FALSE, region |-> ""]
                  ELSE p.metadata,
     created_at |-> now, updated_at |-> now]

(* ---------------------------------------------------- keyword fetchers *)
\* a record as fetch() delivers it; is_map is false for a record that is no dict
RawRecord(is_map, has_kw, kw, has_rank, rank, score, meta_region) ==
    [is_map |-> is_map, has_keyword |-> has_kw, keyword |-> kw,
     has_rank |-> has_rank, rank |-> rank, score |-> score,
     meta_region |-> meta_region]

RegionHandle(code) == [t |-> "Region", i |-> 0, s |-> code]

\* the first record GoogleTrendsFetcher('TW').fetch() builds
R_good == RawRecord(TRUE, TRUE, PyStr("a"), TRUE, PyInt(1), PyNone, PyStr("TW"))
\* records YouTubeTrendingFetcher('TW').fetch() builds: the second one, and the
\* third one for a title of blanks (clean_keyword strips it, nothing skips it)
R_trending == RawRecord(TRUE, TRUE, PyStr("b"), TRUE, PyInt(2), PyInt(5), RegionHandle("TW"))
R_empty == RawRecord(TRUE, TRUE, PyStr(""), TRUE, PyInt(3), PyInt(5), RegionHandle("TW"))
\* records of a fetcher of another class: the stage takes any list of dicts
R_textrank == RawRecord(TRUE, TRUE, PyStr("b"), TRUE, PyStr("2"), PyNone, PyNone)
R_badrank == RawRecord(TRUE, TRUE, PyStr("c"), TRUE, PyStr("x"), PyNone, PyNone)
R_intkeyword == RawRecord(TRUE, TRUE, PyInt(7), TRUE, PyInt(3), PyNone, PyNone)
R_nokeyword == RawRecord(TRUE, FALSE, PyNone, TRUE, PyInt(4), PyNone, PyNone)
R_norank == RawRecord(TRUE, TRUE, PyStr("d"), FALSE, PyNone, PyNone, PyNone)
R_notmap == RawRecord(FALSE, FALSE, PyNone, FALSE, PyNone, PyNone, PyNone)
\* a record with a rank int() takes and a score it refuses
R_badscore == RawRecord(TRUE, TRUE, PyStr("e"), TRUE, PyInt(5), PyStr("x"), PyNone)

\* what a fetcher may deliver when the stage is called on its own
StageRecords == {R_good, R_badrank, R_badscore, R_intkeyword, R_nokeyword, R_notmap}
\* what the one fetcher of a workflow may deliver in one batch, a
\* YouTubeTrendingFetcher or a fetcher of another class
BatchRecords ==
    {R_good, R_trending, R_empty, R_textrank, R_badrank, R_badscore, R_intkeyword}
\* what a fetcher may deliver in a whole run
RunRecords == {R_good, R_badrank, R_norank}

Min(a, b) == IF a < b THEN a ELSE b

\* what the trends API may answer with: a text, a text with blanks around it, a
\* blank text and a value that is no text
TrendItems == {PyStr("a"), PyStr(" a "), PyStr(" "), PyInt(7)}
\* str.strip() on these texts
Strip(text) ==
    CASE text = " a " -> "a"
      [] text = " " -> ""
      [] OTHER -> text
\* fetch(limit=10), line 42 of google_trends.py
FetchLimit == 10

\* GoogleTrendsFetcher.fetch, lines 70-94 of google_trends.py: the records built
\* from the answer of the trends API, of the items that are texts and not blank;
\* rank is the position in the answer
TrendsRecords(items, region) ==
    LET kept == SelectSeq([k \in 1..Min(Len(items), FetchLimit) |-> k],
                          LAMBDA k : items[k].t = "str" /\ Strip(items[k].s) # "")
    IN [j \in 1..Len(kept) |->
           RawRecord(TRUE, TRUE, PyStr(Strip(items[kept[j]].s)), TRUE,
                     PyInt(kept[j]), PyNone, PyStr(Text(region)))]

SeqsUpTo(S, n) == UNION {[1..k -> S] : k \in 0..n}

(* ------------------------------------------------------- DailyWorkflow *)
\* the fetchers __init__ builds for each region of the configuration, lines 90-96
Platforms == <<"google_trends">>
\* the (region, platform) pairs in the order of the two loops of lines 102-103
PairsOf(regs) ==
    [k \in 1..(Len(regs) * Len(Platforms)) |->
        [region |-> regs[((k - 1) \div Len(Platforms)) + 1],
         platform |-> Platforms[((k - 1) % Len(Platforms)) + 1]]]

\* GoogleTrendsFetcher(region), lines 10-11 of google_trends.py and line 17 of
\* keywords/base.py: a Region is taken as it is, a string goes through from_code
NewFetcher(region) ==
    IF region.t = "Region" THEN [exc |-> "", region |-> <<Chars(region.s)>>]
    ELSE FetcherInit(Chars(region.s))

\* lines 113-131: the payload built from one record, or what is raised;
\* inner tells whether it is raised inside the try of line 123
Normalize(rec, pair) ==
    LET bad(e, inner) == [exc |-> e, inner |-> inner, data |-> <<>>]
        meta == IF rec.meta_region.t = "none"
                THEN [t |-> "dict", has_region |-> FALSE, region |-> ""]
                ELSE [t |-> "dict", has_region |-> TRUE, region |-> rec.meta_region.s]
        score == IF rec.score.t = "none" THEN PyInt(0) ELSE rec.score
        rank == PyIntOf(rec.rank)
        sc == PyIntOf(score)
    IN CASE ~rec.is_map -> bad("AttributeError", FALSE)
         [] ~rec.has_keyword -> bad("KeyError", TRUE)
         [] ~rec.has_rank -> bad("KeyError", TRUE)
         [] rank.exc # "" -> bad(rank.exc, TRUE)
         [] sc.exc # "" -> bad(sc.exc, TRUE)
         [] OTHER ->
              [exc |-> "", inner |-> TRUE,
               data |-> <<[keyword |-> PyStr(PyStrOf(rec.keyword)),
                           rank |-> PyInt(rank.val),
                           score |-> PyInt(sc.val),
                           platform |-> PyStr(pair.platform),
                           region |-> PyStr(IF pair.region.t = "Region"
                                            THEN pair.region.s
                                            ELSE PyStrOf(pair.region)),
                           metadata |-> meta]>>]

\* line 141: except (ValueError, TypeError)
InnerCatches(exc) == exc \in {"ValueError", "TypeError"}

\* line 146: except Exception
OuterCatches_DataErrorsOnly(exc) == exc \in {"ValueError", "TypeError", "KeyError"}

OuterCatches(exc) == exc # ""

(* ------------------------------------------- VideosDB and TranscriptsDB *)
\* insert_video, lines 27-49
VideoTypeError(p) ==
    ~IsStr(p.keyword_id) \/ ~IsStr(p.video_category) \/ ~IsStr(p.video_thumbnail_url)
    \/ ~IsStr(p.video_url) \/ ~IsStr(p.video_youtube_id) \/ ~IsStr(p.video_title)
    \/ ~IsInt(p.video_duration) \/ ~IsInt(p.video_views) \/ ~IsInt(p.video_likes)
    \/ ~IsStr(p.video_language) \/ ~IsInt(p.video_comments)

\* insert_video, lines 51-67; keyword_oid is ObjectId(keyword_id)
VideoDoc_NoKeywordRef(p, keyword_oid, now) ==
    [_id |-> 0, keyword_id |-> 0, video_category |-> p.video_category,
     video_thumbnail_url |-> p.video_thumbnail_url, video_url |-> p.video_url,
     video_youtube_id |-> p.video_youtube_id, video_title |-> p.video_title,
     video_duration |-> p.video_duration, video_views |-> p.video_views,
     video_likes |-> p.video_likes, video_language |-> p.video_language,
     video_comments |-> p.video_comments, created_at |-> now, updated_at |-> now]

VideoDoc(p, keyword_oid, now) ==
    [_id |-> 0, keyword_id |-> keyword_oid, video_category |-> p.video_category,
     video_thumbnail_url |-> p.video_thumbnail_url, video_url |-> p.video_url,
     video_youtube_id |-> p.video_youtube_id, video_title |-> p.video_title,
     video_duration |-> p.video_duration, video_views |-> p.video_views,
     video_likes |-> p.video_likes, video_language |-> p.video_language,
     video_comments |-> p.video_comments, created_at |-> now, updated_at |-> now]

\* insert_transcript, lines 28-37
TranscriptTypeError(p) ==
    ~IsStr(p.video_id) \/ ~IsStr(p.transcript) \/ ~IsStr(p.language)

\* VideosDB.find_by_video_id, lines 77-79: the query names the field video_id
FindByVideoId(coll, video_id) == FindOneBy(coll, "video_id", video_id)

\* insert_transcript, lines 39-47; video_oid is ObjectId(video_id)
TranscriptDoc_NoVideoRef(p, video_oid, now) ==
    [_id |-> 0, video_id |-> 0, transcript |-> p.transcript,
     language |-> p.language, created_at |-> now, updated_at |-> now]

TranscriptDoc(p, video_oid, now) ==
    [_id |-> 0, video_id |-> video_oid, transcript |-> p.transcript,
     language |-> p.language, created_at |-> now, updated_at |-> now]

(* ---------------------------------------------------------- ArticlesDB *)
\* insert_article, lines 40-67
ArticleTypeError(p) ==
    ~IsStr(p.keyword_id) \/ ~IsStr(p.transcript_id) \/ ~IsStr(p.video_id)
    \/ ~IsStr(p.article_language) \/ ~IsStr(p.title) \/ ~IsStr(p.content)
    \/ ~IsStr(p.tags) \/ p.seo_metadata.t # "dict" \/ p.published.t # "bool"

\* insert_article, lines 69-83; the three references are converted by ObjectId
ArticleDoc(p, koid, toid, void, now) ==
    [_id |-> 0, keyword_id |-> koid, transcript_id |-> toid, video_id |-> void,
     article_language |-> p.article_language, title |-> p.title,
     content |-> p.content, tags |-> p.tags, seo_metadata |-> p.seo_metadata,
     published |-> p.published, created_at |-> now, updated_at |-> now]

\* update_publish_status, lines 101-111: what it returns and how many error lines
\* it writes; nothing leaves its try: what ObjectId raises and what update_one
\* raises when the store refuses the update are logged (line 110), False is
\* returned (line 111) and the Article is as it was
UpdatePublishStatus(coll, idstr, published, now, refused) ==
    LET o == ObjectId(idstr)
        u == UpdateOne(coll, o.val, "published", published, now)
    IN IF o.exc # "" \/ refused THEN [coll |-> coll, ret |-> FALSE, errors |-> 1]
       ELSE [coll |-> u.coll, ret |-> u.modified > 0, errors |-> 0]

(* ------------------------------------------------------ collaborators *)
\* one result of YouTubeSearcher.search, lines 104-124 of yt_search.py
SearchResult(ytid, url, thumb, duration) ==
    [video_id |-> ytid, title |-> PyStr("t"), url |-> url,
     thumbnail_url |-> thumb, duration |-> duration,
     view_count |-> PyInt(9), like_count |-> PyInt(1), comment_count |-> PyInt(0)]

V_short == SearchResult("v1", "https://www.youtube.com/watch?v=v1", PyStr("u"), <<"P", "T", "7", "M", "3", "2", "S">>)
V_hours == SearchResult("v2", "https://www.youtube.com/watch?v=v2", PyStr("u"), <<"P", "T", "2", "H">>)
\* a day-long video: ISO-8601 puts the days before the T
V_days == SearchResult("v3", "https://www.youtube.com/watch?v=v3", PyStr("u"), <<"P", "1", "D", "T", "2", "H">>)
\* no thumbnail: thumbnail_url stays None (line 98 of yt_search.py)
V_nothumb == SearchResult("v4", "https://www.youtube.com/watch?v=v4", PyNone, <<"P", "T", "4", "5", "S">>)

SearchResults == {V_short, V_hours, V_days, V_nothumb}
\* what search() may deliver in a whole run
RunResults == {V_short, V_days, V_nothumb}

\* max_results of the call of line 166
SearchMaxResults == 3


\* KeywordsDB.find_by_platform_region, lines 78-83 of keywords.py: it calls
\* self.find, which neither KeywordsDB nor BaseDB defines
FindByPlatformRegion(coll, platform, region) ==
    [exc |-> "AttributeError", res |-> <<>>]

\* extract_video_id, lines 43-54 of downloader.py, on the urls search() builds
ExtractVideoId(url) == (CHOOSE v \in SearchResults : v.url = url).video_id

\* download_video, line 72 of downloader.py: the path of the downloaded file
DownloadPath(url) == <<"output_dir", ExtractVideoId(url), ".mp4">>

\* lines 175-187: the payload of insert_video built from one search result
VideoData(keyword_id, v) ==
    LET d == parse_duration(v.duration)
        views == PyIntOf(v.view_count)
        likes == PyIntOf(v.like_count)
        comments == PyIntOf(v.comment_count)
        exc == CASE d.exc # "" -> d.exc
                 [] views.exc # "" -> views.exc
                 [] likes.exc # "" -> likes.exc
                 [] comments.exc # "" -> comments.exc
                 [] OTHER -> ""
    IN [exc |-> exc,
        data |-> [keyword_id |-> PyStr(keyword_id), video_category |-> PyStr("education"),
                  video_thumbnail_url |-> v.thumbnail_url,
                  video_url |-> PyStr(v.url),
                  video_youtube_id |-> PyStr(v.video_id),
                  video_title |-> v.title, video_duration |-> PyInt(d.val),
                  video_views |-> PyInt(views.val), video_likes |-> PyInt(likes.val),
                  video_language |-> PyStr("en"),
                  video_comments |-> PyInt(comments.val)]]

\* search_videos and download_videos have no handler: whatever is raised leaves
SearchCatches(exc) == FALSE
DownloadCatches(exc) == FALSE
\* line 232: except Exception
TranscribeCatches_RuntimeErrorOnly(exc) == exc = "RuntimeError"

TranscribeCatches(exc) == exc # ""

VARIABLES
    regions,        \* config['regions']
    entry,          \* the method called: "main", "run" or a stage called alone
    api_key,        \* whether YOUTUBE_API_KEY is set
    pc,             \* position of the run
    pair_idx,       \* FetchingKeywords: the (region, platform) pair at hand
    batch,          \* FetchingKeywords: the records of the pair still to process
    keyword_ids,    \* result list of fetch_trending_keywords
    pos,            \* index of the next item of the loop of the current stage
    results,        \* SearchingVideos: the search results still to insert
    video_ids,      \* result list of search_videos
    path_map,       \* result of download_videos: video id -> local path
    run_result,     \* what run() returned, once it has returned
    keywords_db, videos_db, transcripts_db, articles_db,   \* the collections
    next_oid,       \* the next ObjectId the store assigns
    clock,          \* the store clock
    log,            \* number of log entries by kind
    processed,      \* FetchingKeywords: the records handled, with their outcome
    unprocessed,    \* FetchingKeywords: records of a batch the loop never reached
    calls,          \* the collaborator calls made, in order
    raised,         \* the stage an exception escaped from, "" if none
    last, prev,     \* the last two repository calls made from outside the run
    ncalls          \* number of such calls

wfVars == <<regions, entry, api_key, pc, pair_idx, batch, keyword_ids, pos, results,
            video_ids, path_map, run_result>>
dbVars == <<keywords_db, videos_db, transcripts_db, articles_db, next_oid, clock>>
histVars == <<log, processed, unprocessed, calls, raised>>
apiVars == <<last, prev, ncalls>>
vars == <<wfVars, dbVars, histVars, apiVars>>

Pairs == PairsOf(regions)

NoCall == [op |-> "", id |-> <<>>, value |-> FALSE, exc |-> "", ret |-> FALSE,
           res |-> <<>>]

\* nothing has run yet
InitIdle ==
    /\ pair_idx = 1 /\ batch = <<>> /\ pos = 1
    /\ results = <<>> /\ video_ids = <<>> /\ path_map = <<>> /\ run_result = <<>>
    /\ videos_db = <<>> /\ transcripts_db = <<>> /\ articles_db = <<>>
    /\ log = [error |-> 0, warning |-> 0, dropped |-> 0]
    /\ processed = <<>> /\ unprocessed = 0
    /\ calls = <<>> /\ raised = ""
    /\ prev = NoCall /\ ncalls = 0

\* nothing has run yet and the store is empty
InitState ==
    /\ InitIdle /\ keyword_ids = <<>> /\ keywords_db = <<>> /\ next_oid = 1

InitCommon == InitState /\ last = NoCall

\* run() is under execution: its stages hand over to each other
UnderRun == entry = "run"

\* an exception leaves the stage
Escape(stage) ==
    /\ pc' = "Failed"
    /\ raised' = stage

Logged(kind) == [log EXCEPT ![kind] = @ + 1]

\* the log after a failure inside a stage, base being the log with the lines
\* written below the stage: the handler of the stage logs it, if there is one
\* that catches it; else it leaves the stage, and run() logs what it catches and
\* raises it again (lines 255-257), while a stage called alone logs nothing
Failed(caught, base) ==
    IF caught \/ UnderRun THEN [base EXCEPT !.error = @ + 1] ELSE base

\* the pair after this one; the stage is over when there is none
NextPair == pair_idx' = pair_idx + 1

(* ---- fetch_trending_keywords, lines 97-155 ---- *)
\* line 105: fetcher.fetch() of the pair at hand, raising or delivering a batch;
\* a fetcher may catch its own failure, log it and deliver nothing, as
\* YouTubeTrendingFetcher.fetch() does without an api key (lines 15-17 of
\* youtube_trending.py) and when the request fails (lines 57-59)
FetchPair(Records) ==
    /\ pc = "Fetching" /\ batch = <<>> /\ pair_idx <= Len(Pairs)
    /\ \/ /\ calls' = Append(calls, [op |-> "fetch", arg |-> pair_idx, ok |-> FALSE, n |-> 0])
          /\ IF OuterCatches("FetchError")
             THEN /\ log' = Logged("error") /\ NextPair
                  /\ UNCHANGED <<pc, raised>>
             ELSE /\ Escape("fetch") /\ UNCHANGED <<log, pair_idx>>
          /\ UNCHANGED batch
       \/ /\ calls' = Append(calls, [op |-> "fetch", arg |-> pair_idx, ok |-> TRUE, n |-> 0])
          /\ log' = Logged("error")
          /\ NextPair
          /\ UNCHANGED <<batch, pc, raised>>
       \/ \E b \in SeqsUpTo(Records, MaxRecords - (Len(processed) + unprocessed)) :
            /\ calls' = Append(calls, [op |-> "fetch", arg |-> pair_idx, ok |-> TRUE,
                                       n |-> Len(b)])
            /\ batch' = b
            /\ pair_idx' = IF b = <<>> THEN pair_idx + 1 ELSE pair_idx
            /\ UNCHANGED <<pc, raised, log>>
    /\ UNCHANGED <<regions, entry, api_key, run_result, keyword_ids, pos, results, video_ids, path_map>>
    /\ UNCHANGED <<dbVars, processed, unprocessed, apiVars>>

\* line 105 with the fetcher __init__ builds: GoogleTrendsFetcher.fetch() catches
\* what the trends API raises, logs it and delivers nothing (lines 96-98 of
\* google_trends.py), warns of an answer None (lines 56-58) and of every item it
\* skips (lines 72-79)
FetchTrends(Items) ==
    /\ pc = "Fetching" /\ batch = <<>> /\ pair_idx <= Len(Pairs)
    /\ NewFetcher(Pairs[pair_idx].region).exc = ""
    /\ \/ /\ calls' = Append(calls, [op |-> "fetch", arg |-> pair_idx, ok |-> TRUE, n |-> 0])
          /\ log' \in {Logged("error"), Logged("warning")}
          /\ NextPair
          /\ UNCHANGED batch
       \/ \E items \in SeqsUpTo(Items, MaxRecords - (Len(processed) + unprocessed)) :
            LET recs == TrendsRecords(items, NewFetcher(Pairs[pair_idx].region).region[1])
            IN /\ calls' = Append(calls, [op |-> "fetch", arg |-> pair_idx, ok |-> TRUE,
                                          n |-> Len(recs)])
               /\ log' = [log EXCEPT !.warning = @ + (Min(Len(items), FetchLimit) - Len(recs))]
               /\ batch' = recs
               /\ pair_idx' = IF recs = <<>> THEN pair_idx + 1 ELSE pair_idx
    /\ UNCHANGED <<regions, entry, api_key, run_result, keyword_ids, pos, results, video_ids,
                   path_map, pc, raised>>
    /\ UNCHANGED <<dbVars, processed, unprocessed, apiVars>>

\* the end of the handling of one record: the loop goes on with the next one
RecordDone(rec, outcome, id) ==
    /\ processed' = Append(processed, [rec |-> rec, pair |-> pair_idx,
                                       outcome |-> outcome, id |-> id])
    /\ batch' = Tail(batch)
    /\ pair_idx' = IF Tail(batch) = <<>> THEN pair_idx + 1 ELSE pair_idx
    /\ UNCHANGED <<unprocessed, pc, raised>>

\* an exception leaves the loop over the records of the batch, to line 146
RecordAborts(rec, exc) ==
    /\ processed' = Append(processed, [rec |-> rec, pair |-> pair_idx,
                                       outcome |-> "aborted", id |-> <<>>])
    /\ batch' = <<>>
    /\ IF OuterCatches(exc)
       THEN /\ NextPair /\ UNCHANGED <<pc, raised>>
            /\ unprocessed' = unprocessed + Len(Tail(batch))
       ELSE /\ Escape("fetch") /\ UNCHANGED <<pair_idx, unprocessed>>

\* lines 109-144: one record of the batch
ProcessRecord ==
    /\ pc = "Fetching" /\ batch # <<>>
    /\ LET rec == Head(batch)
           n == Normalize(rec, Pairs[pair_idx])
       IN \/ /\ n.exc # "" /\ n.inner /\ InnerCatches(n.exc)
             /\ log' = [log EXCEPT !.dropped = @ + 1, !.error = @ + 2]
             /\ RecordDone(rec, "dropped", <<>>)
             /\ UNCHANGED <<dbVars, keyword_ids>>
          \/ /\ n.exc # "" /\ ~(n.inner /\ InnerCatches(n.exc))
             /\ log' = Logged("error")
             /\ RecordAborts(rec, n.exc)
             /\ UNCHANGED <<dbVars, keyword_ids>>
          \/ /\ n.exc = "" /\ KeywordTypeError(n.data[1])
             /\ log' = [log EXCEPT !.dropped = @ + 1, !.error = @ + 3]
             /\ RecordDone(rec, "dropped", <<>>)
             /\ UNCHANGED <<dbVars, keyword_ids>>
          \/ \* the store refuses the insert: insert_keyword logs and raises again
             /\ n.exc = "" /\ ~KeywordTypeError(n.data[1])
             /\ log' = [log EXCEPT !.error = @ + 2]
             /\ RecordAborts(rec, "PyMongoError")
             /\ UNCHANGED <<dbVars, keyword_ids>>
          \/ /\ n.exc = "" /\ ~KeywordTypeError(n.data[1])
             /\ \E r \in ClockReads(clock) :
                  /\ keywords_db' = InsertOne(keywords_db, KeywordDoc(n.data[1], clock),
                                              next_oid, r[1], r[2])
                  /\ clock' = r[2]
             /\ next_oid' = next_oid + 1
             /\ keyword_ids' = Append(keyword_ids, OidStr(next_oid))
             /\ RecordDone(rec, "inserted", OidStr(next_oid))
             /\ UNCHANGED <<log, videos_db, transcripts_db, articles_db>>
    /\ UNCHANGED <<regions, entry, api_key, run_result, pos, results, video_ids, path_map, calls, apiVars>>

\* lines 152-155: the stage returns its list
FinishFetch_EmptyIsFatal ==
    /\ pc = "Fetching" /\ batch = <<>> /\ pair_idx > Len(Pairs)
    /\ log' = IF keyword_ids = <<>> THEN Logged("error") ELSE log
    /\ IF keyword_ids = <<>>
       THEN Escape("fetch")
       ELSE pc' = (IF UnderRun THEN "Searching" ELSE "Returned") /\ UNCHANGED raised
    /\ pos' = 1
    /\ UNCHANGED <<regions, entry, api_key, run_result, pair_idx, batch, keyword_ids, results,
                   video_ids, path_map, dbVars, processed, unprocessed, calls, apiVars>>

FinishFetch ==
    /\ pc = "Fetching" /\ batch = <<>> /\ pair_idx > Len(Pairs)
    /\ log' = IF keyword_ids = <<>> THEN Logged("warning") ELSE log
    /\ pc' = IF UnderRun THEN "Searching" ELSE "Returned"
    /\ pos' = 1
    /\ UNCHANGED <<regions, entry, api_key, run_result, pair_idx, batch, keyword_ids, results, video_ids,
                   path_map, dbVars, processed, unprocessed, calls, raised, apiVars>>

(* ---- search_videos, lines 157-192 ---- *)
\* lines 161-171: the next keyword id is resolved and searched
SearchKeyword(Results) ==
    /\ pc = "Searching" /\ results = <<>> /\ pos <= Len(keyword_ids)
    /\ LET kid == keyword_ids[pos]
           found == FindById(keywords_db, kid)
       IN \/ /\ found.exc # ""
             /\ Escape("search") /\ log' = Failed(FALSE, log)
             /\ UNCHANGED <<pos, results, calls>>
          \/ /\ found.exc = "" /\ found.res = <<>>
             /\ pos' = pos + 1
             /\ UNCHANGED <<pc, raised, log, results, calls>>
          \/ \* search() logs what it raises and raises it again (lines 133-138 of
             \* yt_search.py), after the warnings of the items it had skipped by
             \* then (lines 126-128)
             /\ found.exc = "" /\ found.res # <<>>
             /\ calls' = Append(calls, [op |-> "search", arg |-> kid, ok |-> FALSE, n |-> 0])
             /\ \E skipped \in 0..MaxSkipped :
                  LET written == [log EXCEPT !.warning = @ + skipped, !.error = @ + 1]
                  IN IF SearchCatches("HttpError")
                     THEN /\ pos' = pos + 1 /\ log' = written
                          /\ UNCHANGED <<pc, raised>>
                     ELSE /\ Escape("search") /\ log' = Failed(FALSE, written)
                          /\ UNCHANGED pos
             /\ UNCHANGED results
          \/ /\ found.exc = "" /\ found.res # <<>>
             \* search() returns the complete items of the videos.list answer:
             \* it warns once when search.list has no item (lines 79-81 of
             \* yt_search.py) and once for each item of videos.list it skips
             \* (lines 126-128)
             /\ \E rs \in SeqsUpTo(Results,
                                   Min(SearchMaxResults, MaxVideos - Len(video_ids))),
                   listed \in BOOLEAN, skipped \in 0..MaxSkipped :
                  /\ listed \/ (rs = <<>> /\ skipped = 0)
                  /\ Len(rs) + skipped <= SearchMaxResults
                  /\ results' = rs
                  /\ pos' = IF rs = <<>> THEN pos + 1 ELSE pos
                  /\ calls' = Append(calls, [op |-> "search", arg |-> kid, ok |-> TRUE,
                                             n |-> Len(rs)])
                  /\ log' = [log EXCEPT !.warning = @ + (IF listed THEN skipped ELSE 1)]
             /\ UNCHANGED <<pc, raised>>
    /\ UNCHANGED <<regions, entry, api_key, run_result, pair_idx, batch, keyword_ids, video_ids,
                   path_map, dbVars, processed, unprocessed, apiVars>>

\* line 173, `for video in videos`: the result at hand
NextResult_LastFirst(rs) == rs[Len(rs)]

NextResult(rs) == Head(rs)

\* a failure on one search result
VideoFails_Rollback(exc) ==
    /\ IF SearchCatches(exc)
       THEN /\ results' = Tail(results)
            /\ pos' = IF Tail(results) = <<>> THEN pos + 1 ELSE pos
            /\ UNCHANGED <<pc, raised>>
       ELSE /\ Escape("search") /\ UNCHANGED <<results, pos>>
    /\ videos_db' = <<>>
    /\ UNCHANGED <<keywords_db, transcripts_db, articles_db, next_oid, clock, video_ids>>

VideoFails(exc) ==
    /\ IF SearchCatches(exc)
       THEN /\ results' = Tail(results)
            /\ pos' = IF Tail(results) = <<>> THEN pos + 1 ELSE pos
            /\ UNCHANGED <<pc, raised>>
       ELSE /\ Escape("search") /\ UNCHANGED <<results, pos>>
    /\ UNCHANGED <<dbVars, video_ids>>

\* lines 173-190: one search result is turned into a Video and inserted
InsertVideo ==
    /\ pc = "Searching" /\ results # <<>>
    /\ LET kid == keyword_ids[pos]
           vd == VideoData(kid, NextResult(results))
           koid == ObjectId(kid)
       IN \/ /\ vd.exc # ""
             /\ VideoFails(vd.exc) /\ log' = Failed(SearchCatches(vd.exc), log)
          \/ /\ vd.exc = "" /\ VideoTypeError(vd.data)
             /\ VideoFails("TypeError") /\ log' = Failed(SearchCatches("TypeError"), log)
          \/ /\ vd.exc = "" /\ ~VideoTypeError(vd.data) /\ koid.exc # ""
             /\ VideoFails(koid.exc) /\ log' = Failed(SearchCatches(koid.exc), log)
          \/ \* the store refuses the insert: insert_video logs and raises again
             /\ vd.exc = "" /\ ~VideoTypeError(vd.data) /\ koid.exc = ""
             /\ VideoFails("PyMongoError")
             /\ log' = Failed(SearchCatches("PyMongoError"), Logged("error"))
          \/ /\ vd.exc = "" /\ ~VideoTypeError(vd.data) /\ koid.exc = ""
             /\ \E r \in ClockReads(clock) :
                  /\ videos_db' = InsertOne(videos_db, VideoDoc(vd.data, koid.val, clock),
                                            next_oid, r[1], r[2])
                  /\ clock' = r[2]
             /\ next_oid' = next_oid + 1
             /\ video_ids' = Append(video_ids, OidStr(next_oid))
             /\ results' = Tail(results)
             /\ pos' = IF Tail(results) = <<>> THEN pos + 1 ELSE pos
             /\ UNCHANGED <<pc, raised, log, keywords_db, transcripts_db, articles_db>>
    /\ UNCHANGED <<regions, entry, api_key, run_result, pair_idx, batch, keyword_ids, path_map,
                   processed, unprocessed, calls, apiVars>>

\* line 192: the stage returns its list
FinishSearch_FetchesAgain ==
    /\ pc = "Searching" /\ results = <<>> /\ pos > Len(keyword_ids)
    /\ pc' = IF UnderRun /\ keyword_ids = <<>> THEN "Fetching"
             ELSE IF UnderRun THEN "Downloading" ELSE "Returned"
    /\ pos' = 1
    /\ UNCHANGED <<regions, entry, api_key, run_result, pair_idx, batch, keyword_ids, results,
                   video_ids, path_map, dbVars, histVars, apiVars>>

FinishSearch ==
    /\ pc = "Searching" /\ results = <<>> /\ pos > Len(keyword_ids)
    /\ pc' = IF UnderRun THEN "Downloading" ELSE "Returned"
    /\ pos' = 1
    /\ UNCHANGED <<regions, entry, api_key, run_result, pair_idx, batch, keyword_ids, results,
                   video_ids, path_map, dbVars, histVars, apiVars>>

(* ---- download_videos, lines 194-210 ---- *)
\* lines 198-208: the next video id is resolved and downloaded
DownloadVideo ==
    /\ pc = "Downloading" /\ pos <= Len(video_ids)
    /\ LET vid == video_ids[pos]
           found == FindById(videos_db, vid)
       IN \/ /\ found.exc # ""
             /\ Escape("download") /\ log' = Failed(FALSE, log)
             /\ UNCHANGED <<pos, path_map, calls>>
          \/ /\ found.exc = "" /\ found.res = <<>>
             /\ pos' = pos + 1
             /\ UNCHANGED <<pc, raised, log, path_map, calls>>
          \/ \* download_video raises Exception("Failed to download video: ...")
             /\ found.exc = "" /\ found.res # <<>>
             /\ calls' = Append(calls, [op |-> "download", arg |-> vid, ok |-> FALSE, n |-> 0])
             /\ log' = Failed(DownloadCatches("Exception"), log)
             /\ IF DownloadCatches("Exception")
                THEN pos' = pos + 1 /\ UNCHANGED <<pc, raised>>
                ELSE Escape("download") /\ UNCHANGED pos
             /\ UNCHANGED path_map
          \/ /\ found.exc = "" /\ found.res # <<>>
             /\ calls' = Append(calls, [op |-> "download", arg |-> vid, ok |-> TRUE, n |-> 1])
             /\ path_map' = (vid :> DownloadPath(found.res[1].video_url.s)) @@ path_map
             /\ pos' = pos + 1
             /\ UNCHANGED <<pc, raised, log>>
    /\ UNCHANGED <<regions, entry, api_key, run_result, pair_idx, batch, keyword_ids, results,
                   video_ids, dbVars, processed, unprocessed, apiVars>>

\* line 210: the stage returns the mapping
FinishDownload ==
    /\ pc = "Downloading" /\ pos > Len(video_ids)
    /\ pc' = IF UnderRun THEN "Transcribing" ELSE "Returned"
    /\ pos' = 1
    /\ UNCHANGED <<regions, entry, api_key, run_result, pair_idx, batch, keyword_ids, results,
                   video_ids, path_map, dbVars, histVars, apiVars>>

(* ---- transcribe_videos, lines 212-234 ---- *)
\* a failure inside the try of line 219
TranscribeFails(exc, base) ==
    /\ log' = Failed(TranscribeCatches(exc), base)
    /\ IF TranscribeCatches(exc)
       THEN pos' = pos + 1 /\ UNCHANGED <<pc, raised>>
       ELSE Escape("transcribe") /\ UNCHANGED pos
    /\ UNCHANGED dbVars

\* lines 214-234: the next video id, transcribed if it was downloaded
TranscribeVideo ==
    /\ pc = "Transcribing" /\ pos <= Len(video_ids)
    /\ LET vid == video_ids[pos]
           payload == [video_id |-> PyStr(vid), transcript |-> PyStr("text"),
                       language |-> PyStr("en")]
           void == ObjectId(vid)
       IN \/ \* video_paths.get(video_id) is None
             /\ vid \notin DOMAIN path_map
             /\ pos' = pos + 1
             /\ UNCHANGED <<pc, raised, log, dbVars, calls>>
          \/ \* transcribe() raises FileNotFoundError or RuntimeError
             /\ vid \in DOMAIN path_map
             /\ calls' = Append(calls, [op |-> "transcribe", arg |-> vid, ok |-> FALSE, n |-> 0])
             /\ TranscribeFails("RuntimeError", log)
          \/ /\ vid \in DOMAIN path_map
             /\ TranscriptTypeError(payload) \/ void.exc # ""
             /\ calls' = Append(calls, [op |-> "transcribe", arg |-> vid, ok |-> TRUE, n |-> 1])
             \* insert_transcript logs the type it refuses (lines 29-37 of
             \* transcripts.py); ObjectId raises without a line
             /\ IF TranscriptTypeError(payload)
                THEN TranscribeFails("TypeError", Logged("error"))
                ELSE TranscribeFails(void.exc, log)
          \/ \* the store refuses the insert: insert_transcript logs and raises
             \* again (lines 53-55 of transcripts.py)
             /\ vid \in DOMAIN path_map
             /\ ~TranscriptTypeError(payload) /\ void.exc = ""
             /\ calls' = calls \o <<[op |-> "transcribe", arg |-> vid, ok |-> TRUE, n |-> 1],
                                    [op |-> "insert_transcript", arg |-> vid, ok |-> FALSE, n |-> 0]>>
             /\ TranscribeFails("PyMongoError", Logged("error"))
          \/ /\ vid \in DOMAIN path_map
             /\ ~TranscriptTypeError(payload) /\ void.exc = ""
             /\ calls' = calls \o <<[op |-> "transcribe", arg |-> vid, ok |-> TRUE, n |-> 1],
                                    [op |-> "insert_transcript", arg |-> vid, ok |-> TRUE, n |-> 1]>>
             /\ \E r \in ClockReads(clock) :
                  /\ transcripts_db' = InsertOne(transcripts_db,
                                                 TranscriptDoc(payload, void.val, clock),
                                                 next_oid, r[1], r[2])
                  /\ clock' = r[2]
             /\ next_oid' = next_oid + 1
             /\ pos' = pos + 1
             /\ UNCHANGED <<pc, raised, log, keywords_db, videos_db, articles_db>>
    /\ UNCHANGED <<regions, entry, api_key, run_result, pair_idx, batch, keyword_ids, results,
                   video_ids, path_map, processed, unprocessed, apiVars>>

\* what run() hands back: its body has no return statement
RunReturn == PyNone

\* the loop is over: run() logs "Workflow completed successfully" (line 253) and
\* returns
FinishTranscribe ==
    /\ pc = "Transcribing" /\ pos > Len(video_ids)
    /\ pc' = IF UnderRun THEN "Done" ELSE "Returned"
    /\ run_result' = IF UnderRun THEN <<RunReturn>> ELSE run_result
    /\ UNCHANGED <<regions, entry, api_key, pair_idx, batch, keyword_ids, pos, results,
                   video_ids, path_map, dbVars, histVars, apiVars>>

(* ---- main, lines 259-277, and run, lines 236-257 ---- *)
\* lines 269-270 and 275-277: no key, main logs and exits before any stage
MainMissingKey_StartsRun ==
    /\ pc = "Idle" /\ entry = "main" /\ ~api_key
    /\ pc' = "Fetching"
    /\ UNCHANGED <<regions, entry, api_key, run_result, pair_idx, batch, keyword_ids, pos, results,
                   video_ids, path_map, dbVars, histVars, apiVars>>

MainMissingKey ==
    /\ pc = "Idle" /\ entry = "main" /\ ~api_key
    /\ pc' = "Failed" /\ raised' = "precondition"
    /\ log' = Logged("error")
    /\ UNCHANGED <<regions, entry, api_key, run_result, pair_idx, batch, keyword_ids, pos, results,
                   video_ids, path_map, dbVars, processed, unprocessed, calls, apiVars>>

\* line 272: DailyWorkflow.__init__ raises: line 86 hands the loaded
\* configuration, a dict, to YouTubeDownloader, which opens its argument as a
\* path (line 10 of downloader.py). main logs and exits before any stage
MainConstructFails ==
    /\ pc = "Idle" /\ entry = "main" /\ api_key
    /\ pc' = "Failed" /\ raised' = "construction"
    /\ log' = Logged("error")
    /\ UNCHANGED <<regions, entry, api_key, run_result, pair_idx, batch, keyword_ids, pos, results,
                   video_ids, path_map, dbVars, processed, unprocessed, calls, apiVars>>

\* lines 236-240: run() of a workflow that has been constructed enters its first
\* stage
RunStarts ==
    /\ pc = "Idle" /\ entry = "run"
    /\ pc' = "Fetching"
    /\ UNCHANGED <<regions, entry, api_key, run_result, pair_idx, batch, keyword_ids, pos, results,
                   video_ids, path_map, dbVars, histVars, apiVars>>

\* main() with or without the key, or run() of a constructed workflow
Init ==
    /\ InitCommon
    /\ \/ entry = "main" /\ api_key \in BOOLEAN
       \/ entry = "run" /\ api_key = TRUE
    /\ regions = <<PyStr("TW")>>
    /\ pc = "Idle" /\ clock = MaxClock

Next ==
    \/ MainMissingKey
    \/ MainConstructFails
    \/ RunStarts
    \/ FetchPair(RunRecords)
    \/ FetchTrends(TrendItems)
    \/ ProcessRecord
    \/ FinishFetch
    \/ SearchKeyword(RunResults)
    \/ InsertVideo
    \/ FinishSearch
    \/ DownloadVideo
    \/ FinishDownload
    \/ TranscribeVideo
    \/ FinishTranscribe

Spec == Init /\ [][Next]_vars

\* fetch_trending_keywords() called on a constructed workflow
InitFetch ==
    /\ InitCommon /\ entry = "fetch_trending_keywords" /\ api_key = TRUE
    /\ regions = <<PyStr("TW"), PyStr("US"), PyStr("JP")>>
    /\ pc = "Fetching" /\ clock = MaxClock

NextFetch ==
    \/ FetchPair(StageRecords)
    \* the trends API answers with texts here; the items fetch() skips are
    \* part of the whole run
    \/ FetchTrends({PyStr("a"), PyStr(" a ")})
    \/ ProcessRecord
    \/ FinishFetch

SpecFetch == InitFetch /\ [][NextFetch]_vars

\* fetch_trending_keywords() called on a constructed workflow whose
\* keyword_fetchers holds one fetcher: one batch goes through the normalization
InitBatch ==
    /\ InitCommon /\ entry = "fetch_trending_keywords" /\ api_key = TRUE
    /\ regions = <<PyStr("TW")>>
    /\ pc = "Fetching" /\ clock = MaxClock

NextBatch ==
    \/ FetchPair(BatchRecords)
    \/ ProcessRecord
    \/ FinishFetch

SpecBatch == InitBatch /\ [][NextBatch]_vars

\* DailyWorkflow(config) followed by fetch_trending_keywords(): the one region of
\* the configuration is an upper-case code, a lower-case code or a code of no
\* Region
ConfigRegions == {PyStr("TW"), PyStr("tw"), PyStr("xx")}

\* YouTubeDownloader(config_path), line 10 of downloader.py: open() takes a path
YouTubeDownloaderInit(config_path) ==
    IF config_path.t = "str" THEN [exc |-> ""] ELSE [exc |-> "TypeError"]

\* lines 86 and 90-96 of __init__: the downloader is built from the loaded
\* configuration (a mapping, line 80), then one fetcher per region; what either raises leaves the
\* constructor. Called as "__init__" the downloader is the repository's, else a
\* stand-in takes its place and the lines after it are executed
ConstructFetchers ==
    /\ pc = "Constructing"
    /\ IF \/ entry = "__init__" /\ YouTubeDownloaderInit([t |-> "dict", i |-> 0, s |-> ""]).exc # ""
          \/ \E k \in 1..Len(regions) : NewFetcher(regions[k]).exc # ""
       THEN Escape("construction")
       ELSE pc' = "Fetching" /\ UNCHANGED raised
    /\ UNCHANGED <<regions, entry, api_key, run_result, pair_idx, batch, keyword_ids, pos,
                   results, video_ids, path_map, dbVars, log, processed, unprocessed,
                   calls, apiVars>>

InitConfig ==
    /\ InitCommon /\ entry \in {"__init__", "fetch_trending_keywords"} /\ api_key = TRUE
    /\ regions \in {<<r>> : r \in ConfigRegions}
    /\ pc = "Constructing" /\ clock = MaxClock

NextConfig ==
    \/ ConstructFetchers
    \/ FetchTrends(TrendItems)
    \/ ProcessRecord
    \/ FinishFetch

SpecConfig == InitConfig /\ [][NextConfig]_vars

\* search_videos(keyword_ids) called on a constructed workflow, as the tests do,
\* with one Keyword in the store: the ids are the stored one, a well-formed one
\* the store never assigned and one that is no ObjectId
SearchIds == {OidStr(1), OidStr(255), <<"1", "2", "3">>}
InitSearch ==
    /\ InitIdle /\ entry = "search_videos" /\ api_key = TRUE
    /\ regions = <<PyStr("TW")>> /\ pc = "Searching" /\ clock = MaxClock
    /\ keywords_db = InsertOne(<<>>, KeywordDoc(Normalize(R_good, PairsOf(regions)[1]).data[1],
                                                MaxClock), 1, MaxClock, MaxClock)
    /\ next_oid = 2
    /\ keyword_ids \in SeqsUpTo(SearchIds, MaxIds)
    /\ last = NoCall

NextSearch ==
    \/ SearchKeyword(SearchResults)
    \/ InsertVideo
    \/ FinishSearch

SpecSearch == InitSearch /\ [][NextSearch]_vars

(* ---- the repositories called from outside the run ---- *)
\* identifier strings a caller may pass: those of stored documents, a well-formed
\* one the store never assigned, and two that are no ObjectId
ShortId == <<"1", "2", "3">>
NonHexId == [k \in 1..OidLen |-> "z"]
StoredIds(coll) == {OidStr(coll[k]._id) : k \in 1..Len(coll)}
IdStrings ==
    StoredIds(keywords_db) \cup StoredIds(articles_db)
    \cup {OidStr(next_oid), ShortId, NonHexId}

\* what a caller may pass to insert_keyword: a Keyword, and one whose rank is a text
KeywordPayloads ==
    LET good == [keyword |-> PyStr("a"), rank |-> PyInt(1), score |-> PyInt(0),
                 platform |-> PyStr("google_trends"), region |-> PyStr("US"),
                 metadata |-> [t |-> "dict", has_region |-> FALSE, region |-> ""]]
    IN {good, [good EXCEPT !.rank = PyStr("1")]}

\* what a caller may pass to insert_article: an Article, one whose title is a
\* number and one whose Keyword reference is no ObjectId
ArticlePayloads ==
    LET good(b) ==
            [keyword_id |-> PyStr(OidStr(1)), transcript_id |-> PyStr(OidStr(2)),
             video_id |-> PyStr(OidStr(3)), article_language |-> PyStr("en"),
             title |-> PyStr("t"), content |-> PyStr("c"), tags |-> PyStr("g"),
             seo_metadata |-> [t |-> "dict"], published |-> PyBool(b)]
    IN {good(b) : b \in BOOLEAN}
       \cup {[good(TRUE) EXCEPT !.title = PyInt(7)],
             [good(TRUE) EXCEPT !.keyword_id = PyStr(ShortId)]}

Called(c) ==
    /\ ncalls < MaxCalls
    /\ ncalls' = ncalls + 1
    /\ prev' = last
    /\ last' = c

\* time passes between two calls
Tick ==
    /\ clock < MaxClock
    /\ clock' = clock + 1
    /\ UNCHANGED <<wfVars, keywords_db, videos_db, transcripts_db, articles_db,
                   next_oid, histVars, apiVars>>

\* KeywordsDB.insert_keyword(**payload)
ApiInsertKeyword ==
    /\ \E p \in KeywordPayloads :
         IF KeywordTypeError(p)
         THEN /\ Called([NoCall EXCEPT !.op = "insert_keyword", !.exc = "TypeError"])
              /\ log' = Logged("error")
              /\ UNCHANGED <<keywords_db, next_oid, clock>>
         ELSE \/ \* the store refuses: line 75 logs, line 76 raises again
                 /\ Called([NoCall EXCEPT !.op = "insert_keyword", !.exc = "PyMongoError"])
                 /\ log' = Logged("error")
                 /\ UNCHANGED <<keywords_db, next_oid, clock>>
              \/ \E r \in ClockReads(clock) :
                   /\ keywords_db' = InsertOne(keywords_db, KeywordDoc(p, clock),
                                               next_oid, r[1], r[2])
                   /\ clock' = r[2]
                   /\ next_oid' = next_oid + 1
                   /\ Called([NoCall EXCEPT !.op = "insert_keyword",
                                            !.id = OidStr(next_oid)])
                   /\ UNCHANGED log
    /\ UNCHANGED <<wfVars, videos_db, transcripts_db, articles_db, processed, unprocessed,
                   calls, raised>>

\* ArticlesDB.insert_article(**payload)
ApiInsertArticle ==
    /\ \E p \in ArticlePayloads :
         LET k == ObjectId(p.keyword_id.s)
             t == ObjectId(p.transcript_id.s)
             v == ObjectId(p.video_id.s)
         IN IF ArticleTypeError(p) \/ k.exc # "" \/ t.exc # "" \/ v.exc # ""
            THEN /\ Called([NoCall EXCEPT !.op = "insert_article",
                               !.exc = IF ArticleTypeError(p) THEN "TypeError"
                                       ELSE "InvalidId"])
                 \* a type that is refused is logged (lines 41-67 of articles.py),
                 \* what ObjectId raises is not
                 /\ log' = IF ArticleTypeError(p) THEN Logged("error") ELSE log
                 /\ UNCHANGED <<articles_db, next_oid, clock>>
            ELSE \/ \* the store refuses: line 90 logs, line 91 raises again
                    /\ Called([NoCall EXCEPT !.op = "insert_article",
                                             !.exc = "PyMongoError"])
                    /\ log' = Logged("error")
                    /\ UNCHANGED <<articles_db, next_oid, clock>>
                 \/ \E r \in ClockReads(clock) :
                      /\ articles_db' = InsertOne(articles_db,
                                            ArticleDoc(p, k.val, t.val, v.val, clock),
                                            next_oid, r[1], r[2])
                      /\ clock' = r[2]
                      /\ next_oid' = next_oid + 1
                      /\ Called([NoCall EXCEPT !.op = "insert_article",
                                               !.id = OidStr(next_oid)])
                      /\ UNCHANGED log
    /\ UNCHANGED <<wfVars, keywords_db, videos_db, transcripts_db, processed, unprocessed,
                   calls, raised>>

\* ArticlesDB.update_publish_status(article_id, published)
ApiUpdatePublishStatus ==
    /\ \E idstr \in IdStrings, b \in BOOLEAN, refused \in BOOLEAN :
         LET u == UpdatePublishStatus(articles_db, idstr, PyBool(b), clock, refused)
         IN /\ articles_db' = u.coll
            /\ Called([NoCall EXCEPT !.op = "update_publish_status", !.id = idstr,
                                     !.value = b, !.ret = u.ret])
            /\ log' = [log EXCEPT !.error = @ + u.errors]
    /\ UNCHANGED <<wfVars, keywords_db, videos_db, transcripts_db, next_oid, clock,
                   processed, unprocessed, calls, raised>>

\* BaseDB.insert_one(data) called on the keywords directly: any dict is stamped
\* and stored, or the store refuses and the error leaves, unlogged
DirectDocs ==
    {[keyword |-> PyInt(7), rank |-> PyStr("x"), _id |-> 0, created_at |-> 0,
      updated_at |-> 0]}
ApiInsertOne ==
    /\ \E data \in DirectDocs :
         \/ /\ Called([NoCall EXCEPT !.op = "insert_one", !.exc = "PyMongoError"])
            /\ UNCHANGED <<keywords_db, next_oid, clock>>
         \/ \E r \in ClockReads(clock) :
              /\ keywords_db' = InsertOne(keywords_db, data, next_oid, r[1], r[2])
              /\ clock' = r[2]
              /\ next_oid' = next_oid + 1
              /\ Called([NoCall EXCEPT !.op = "insert_one", !.id = OidStr(next_oid)])
    /\ UNCHANGED <<wfVars, videos_db, transcripts_db, articles_db, histVars>>

\* BaseDB.update_one({'_id': id}, {field: value}) called on the articles
\* directly: any field of the first match is set, with a fresh updated_at, or
\* the store refuses and the error leaves, unlogged, with nothing changed
ApiUpdateOne ==
    /\ \E k \in 1..(Len(articles_db) + 1), field \in {"title", "published"} :
         LET oid == IF k <= Len(articles_db) THEN articles_db[k]._id ELSE next_oid
             u == UpdateOne(articles_db, oid, field, PyStr("changed"), clock)
         IN \/ /\ articles_db' = u.coll
               /\ Called([NoCall EXCEPT !.op = "update_one", !.id = OidStr(oid),
                                        !.ret = u.modified > 0])
            \/ /\ UNCHANGED articles_db
               /\ Called([NoCall EXCEPT !.op = "update_one", !.id = OidStr(oid),
                                        !.exc = "PyMongoError"])
    /\ UNCHANGED <<wfVars, keywords_db, videos_db, transcripts_db, next_oid, clock,
                   histVars>>

\* empty_mongodb() of scripts/empty_db.py, lines 17-39: one delete_many({}) for
\* each collection, in the order the store lists them; it returns True after the
\* last one, and what is raised before is logged and raised again, with the
\* collections reached by then emptied
EmptyMongodb ==
    /\ \E emptied \in SUBSET {"keywords", "videos", "transcripts", "articles"} :
         /\ keywords_db' = IF "keywords" \in emptied THEN <<>> ELSE keywords_db
         /\ videos_db' = IF "videos" \in emptied THEN <<>> ELSE videos_db
         /\ transcripts_db' = IF "transcripts" \in emptied THEN <<>> ELSE transcripts_db
         /\ articles_db' = IF "articles" \in emptied THEN <<>> ELSE articles_db
         /\ IF Cardinality(emptied) = 4
            THEN /\ Called([NoCall EXCEPT !.op = "empty_mongodb", !.ret = TRUE])
                 /\ UNCHANGED log
            ELSE /\ Called([NoCall EXCEPT !.op = "empty_mongodb", !.exc = "PyMongoError"])
                 /\ log' = Logged("error")
    /\ UNCHANGED <<wfVars, next_oid, clock, processed, unprocessed, calls, raised>>

\* BaseDB.find_by_id(id) on the keywords and on the articles
ApiFindById ==
    /\ \E idstr \in IdStrings, coll \in {keywords_db, articles_db} :
         LET f == FindById(coll, idstr)
         IN Called([NoCall EXCEPT !.op = "find_by_id", !.id = idstr,
                                  !.exc = f.exc, !.res = f.res])
    /\ UNCHANGED <<wfVars, dbVars, histVars>>

InitStore ==
    /\ InitCommon /\ entry = "repositories" /\ api_key = TRUE
    /\ regions = <<>> /\ pc = "Idle" /\ clock = 0

NextStore ==
    \/ Tick
    \/ ApiInsertKeyword
    \/ ApiInsertArticle
    \/ ApiUpdatePublishStatus
    \/ ApiFindById
    \/ ApiInsertOne
    \/ ApiUpdateOne
    \/ EmptyMongodb

SpecStore == InitStore /\ [][NextStore]_vars

(* ---- region codes resolved from outside the run ---- *)
\* the characters a caller's code is made of
CodeLetters == {"K", "R", "k", "r", KelvinSign, "U", "S", "u", "s", LongS,
                "T", "W", "t", "w", "Z", "z"}
\* the codes a caller may pass
RegionCodes ==
    SeqsUpTo(CodeLetters, MaxCodeLen)
    \cup {<<"G", "L", "O", "B", "A", "L">>, <<"g", "l", "o", "b", "a", "l">>,
          <<"G", "l", "o", "b", "a", "l">>}

\* the call made, its argument and its outcome
Outcome(op, arg, exc, ret, res) ==
    [op |-> op, id |-> arg, value |-> FALSE, exc |-> exc, ret |-> ret, res |-> res]
\* the argument of the call about to be made
Pending(arg) == Outcome("", arg, "", FALSE, <<>>)

\* Region.from_code(code)
ApiFromCode ==
    /\ last.op = ""
    /\ last' = Outcome("from_code", last.id, "", FALSE, from_code(last.id))
    /\ UNCHANGED <<wfVars, dbVars, histVars, prev, ncalls>>

\* Region.is_valid_code(code)
ApiIsValidCode ==
    /\ last.op = ""
    /\ last' = Outcome("is_valid_code", last.id, "", is_valid_code(last.id), <<>>)
    /\ UNCHANGED <<wfVars, dbVars, histVars, prev, ncalls>>

\* GoogleTrendsFetcher(code), as far as KeywordsFetcher.__init__
ApiFetcherInit ==
    /\ last.op = ""
    /\ LET f == FetcherInit(last.id)
       IN last' = Outcome("fetcher_init", last.id, f.exc, FALSE, f.region)
    /\ UNCHANGED <<wfVars, dbVars, histVars, prev, ncalls>>

InitRegion ==
    /\ InitState /\ entry = "region" /\ api_key = TRUE
    /\ regions = <<>> /\ pc = "Idle" /\ clock = 0
    /\ \E code \in RegionCodes : last = Pending(code)

NextRegion ==
    \/ ApiFromCode
    \/ ApiIsValidCode
    \/ ApiFetcherInit

SpecRegion == InitRegion /\ [][NextRegion]_vars

(* ---- parse_duration called on its own ---- *)
\* the numbers written in the duration strings
DurationValues == {0, 1, 2, 7, 10, 32, 45}

\* a number as the video API writes it
RECURSIVE DecimalText(_)
DecimalText(n) ==
    IF n < 10 THEN <<DecDigits[n + 1]>>
    ELSE DecimalText(n \div 10) \o <<DecDigits[(n % 10) + 1]>>

\* one token of a duration: absent, or a number (with a leading zero or not)
DurationFields ==
    {[present |-> FALSE, n |-> 0, pad |-> FALSE]}
    \cup {[present |-> TRUE, n |-> n, pad |-> pad] : n \in DurationValues, pad \in BOOLEAN}
TokenText(f, unit) ==
    IF f.present
    THEN (IF f.pad THEN <<"0">> ELSE <<>>) \o DecimalText(f.n) \o <<unit>>
    ELSE <<>>

\* the durations of the form PT[hH][mM][sS], with the numbers they were written
\* from, and two durations of another form
DurationInputs ==
    {[text |-> <<"P", "T">> \o TokenText(h, "H") \o TokenText(m, "M") \o TokenText(s, "S"),
      form |-> TRUE, h |-> h, m |-> m, s |-> s] : h, m, s \in DurationFields}
    \cup {[text |-> t, form |-> FALSE, h |-> [present |-> FALSE, n |-> 0, pad |-> FALSE],
           m |-> [present |-> FALSE, n |-> 0, pad |-> FALSE],
           s |-> [present |-> FALSE, n |-> 0, pad |-> FALSE]] :
              t \in {<<"P", "1", "D", "T", "2", "H">>, <<"P", "T", "1", ".", "5", "S">>}}

\* parse_duration(duration)
ApiParseDuration ==
    /\ last.op = ""
    /\ LET r == parse_duration(last.id)
       IN last' = [last EXCEPT !.op = "parse_duration", !.exc = r.exc,
                               !.res = IF r.exc = "" THEN <<r.val>> ELSE <<>>]
    /\ UNCHANGED <<wfVars, dbVars, histVars, prev, ncalls>>

InitParse ==
    /\ InitState /\ entry = "parse_duration" /\ api_key = TRUE
    /\ regions = <<>> /\ pc = "Idle" /\ clock = 0
    /\ \E d \in DurationInputs : last = [Pending(d.text) EXCEPT !.value = d]

NextParse == ApiParseDuration

SpecParse == InitParse /\ [][NextParse]_vars

(* ---- the entities constructed from outside the run ---- *)
GoodKeywords ==
    {[keyword |-> PyStr("a"), rank |-> PyInt(r), score |-> PyInt(0),
      platform |-> PyStr("google_trends"), region |-> PyStr(reg),
      metadata |-> [t |-> "dict", has_region |-> FALSE, region |-> ""]] :
         r \in 1..2, reg \in {"TW", "US"}}
GoodVideo ==
    [keyword_id |-> PyStr(OidStr(1)), video_category |-> PyStr("education"),
     video_thumbnail_url |-> PyStr("u"), video_url |-> PyStr("w"),
     video_youtube_id |-> PyStr("v1"), video_title |-> PyStr("t"),
     video_duration |-> PyInt(452), video_views |-> PyInt(9), video_likes |-> PyInt(1),
     video_language |-> PyStr("en"), video_comments |-> PyInt(0)]
GoodTranscript ==
    [video_id |-> PyStr(OidStr(2)), transcript |-> PyStr("text"), language |-> PyStr("en")]
GoodArticle ==
    [keyword_id |-> PyStr(OidStr(1)), transcript_id |-> PyStr(OidStr(2)),
     video_id |-> PyStr(OidStr(3)), article_language |-> PyStr("en"),
     title |-> PyStr("t"), content |-> PyStr("c"), tags |-> PyStr("g"),
     seo_metadata |-> [t |-> "dict"], published |-> PyBool(FALSE)]

\* values of another type than the field's
OtherValues == {PyFloat("1.5"), PyStr("1"), PyInt(1), PyNone}
\* the payload, and the payloads that have a value of another type in one field
Variants(good, fields) ==
    {good} \cup UNION {{[good EXCEPT ![f] = v] : v \in {o \in OtherValues : o.t # good[f].t}} :
                          f \in fields}

\* True is an int for isinstance
KeywordInputs ==
    GoodKeywords
    \cup UNION {Variants(g, {"keyword", "rank", "score", "platform", "region"})
                   \cup {[g EXCEPT !.rank = PyBool(TRUE)]} :
                   g \in {k \in GoodKeywords : k.rank = PyInt(1) /\ k.region = PyStr("TW")}}
VideoInputs == Variants(GoodVideo, DOMAIN GoodVideo \ {"keyword_id"})
TranscriptInputs == Variants(GoodTranscript, {"transcript", "language"})
ArticleInputs ==
    Variants(GoodArticle, {"article_language", "title", "content", "tags", "published"})

Stored == Len(keywords_db) + Len(videos_db) + Len(transcripts_db) + Len(articles_db)

\* a call of an insert_* method that raised, having written so many error lines
Rejected(op, p, exc, errors) ==
    /\ log.error + errors <= MaxLogged
    /\ log' = [log EXCEPT !.error = @ + errors]
    /\ last' = [Outcome(op, <<>>, exc, FALSE, <<>>) EXCEPT !.value = p]
    /\ UNCHANGED <<keywords_db, videos_db, transcripts_db, articles_db, next_oid, clock>>
\* a call of an insert_* method that returned the id of the new document
Accepted(op, p) ==
    /\ Stored < MaxDocs
    /\ last' = [Outcome(op, OidStr(next_oid), "", FALSE, <<>>) EXCEPT !.value = p]
    /\ next_oid' = next_oid + 1
    /\ UNCHANGED log

\* KeywordsDB.insert_keyword(**p)
EntInsertKeyword ==
    /\ \E p \in KeywordInputs :
         IF KeywordTypeError(p) THEN Rejected("insert_keyword", p, "TypeError", 1)
         ELSE \/ Rejected("insert_keyword", p, "PyMongoError", 1)
              \/ /\ Accepted("insert_keyword", p)
                 /\ \E r \in ClockReads(clock) :
                      /\ keywords_db' = InsertOne(keywords_db, KeywordDoc(p, clock),
                                                  next_oid, r[1], r[2])
                      /\ clock' = r[2]
                 /\ UNCHANGED <<videos_db, transcripts_db, articles_db>>
    /\ UNCHANGED <<wfVars, processed, unprocessed, calls, raised, prev, ncalls>>

\* VideosDB.insert_video(**p)
EntInsertVideo ==
    /\ \E p \in VideoInputs :
         LET k == ObjectId(p.keyword_id.s)
         \* insert_video raises the type it refuses without a line (lines 28-49
         \* of videos.py) and logs the insert the store refuses (line 74)
         IN IF VideoTypeError(p) THEN Rejected("insert_video", p, "TypeError", 0)
            ELSE IF k.exc # "" THEN Rejected("insert_video", p, k.exc, 0)
            ELSE \/ Rejected("insert_video", p, "PyMongoError", 1)
                 \/ /\ Accepted("insert_video", p)
                    /\ \E r \in ClockReads(clock) :
                         /\ videos_db' = InsertOne(videos_db, VideoDoc(p, k.val, clock),
                                                   next_oid, r[1], r[2])
                         /\ clock' = r[2]
                    /\ UNCHANGED <<keywords_db, transcripts_db, articles_db>>
    /\ UNCHANGED <<wfVars, processed, unprocessed, calls, raised, prev, ncalls>>

\* TranscriptsDB.insert_transcript(**p)
EntInsertTranscript ==
    /\ \E p \in TranscriptInputs :
         LET v == ObjectId(p.video_id.s)
         IN IF TranscriptTypeError(p) THEN Rejected("insert_transcript", p, "TypeError", 1)
            ELSE IF v.exc # "" THEN Rejected("insert_transcript", p, v.exc, 0)
            ELSE \/ Rejected("insert_transcript", p, "PyMongoError", 1)
                 \/ /\ Accepted("insert_transcript", p)
                    /\ \E r \in ClockReads(clock) :
                         /\ transcripts_db' = InsertOne(transcripts_db,
                                                  TranscriptDoc(p, v.val, clock),
                                                  next_oid, r[1], r[2])
                         /\ clock' = r[2]
                    /\ UNCHANGED <<keywords_db, videos_db, articles_db>>
    /\ UNCHANGED <<wfVars, processed, unprocessed, calls, raised, prev, ncalls>>

\* ArticlesDB.insert_article(**p)
EntInsertArticle ==
    /\ \E p \in ArticleInputs :
         LET k == ObjectId(p.keyword_id.s)
             t == ObjectId(p.transcript_id.s)
             v == ObjectId(p.video_id.s)
         IN IF ArticleTypeError(p) THEN Rejected("insert_article", p, "TypeError", 1)
            ELSE IF k.exc # "" \/ t.exc # "" \/ v.exc # ""
                 THEN Rejected("insert_article", p, "InvalidId", 0)
            ELSE \/ Rejected("insert_article", p, "PyMongoError", 1)
                 \/ /\ Accepted("insert_article", p)
                    /\ \E r \in ClockReads(clock) :
                         /\ articles_db' = InsertOne(articles_db,
                                               ArticleDoc(p, k.val, t.val, v.val, clock),
                                               next_oid, r[1], r[2])
                         /\ clock' = r[2]
                    /\ UNCHANGED <<keywords_db, videos_db, transcripts_db>>
    /\ UNCHANGED <<wfVars, processed, unprocessed, calls, raised, prev, ncalls>>

\* KeywordsDB.find_by_platform_region(platform, region)
EntFindByPlatformRegion ==
    /\ \E platform \in {"google_trends", "youtube_trending"}, region \in {"TW", "US"} :
         LET f == FindByPlatformRegion(keywords_db, platform, region)
         IN last' = Outcome("find_by_platform_region", <<platform, region>>,
                            f.exc, FALSE, f.res)
    /\ UNCHANGED <<wfVars, dbVars, histVars, prev, ncalls>>

\* ArticlesDB.update_publish_status(article_id, published): the id of a stored
\* Article, one the store never assigned or one that is no ObjectId; published
\* is a bool, or a text. The store may refuse any update; the articles
\* collection init_mongodb() has set up (line 133 of scripts/init_db.py) refuses
\* a published that is no bool for the Article the id matches (an id that
\* matches none leaves the validator nothing to test), the one BaseDB creates
\* by itself (line 12 of base.py) has no validator
EntUpdatePublishStatus ==
    /\ \E idstr \in StoredIds(articles_db) \cup {OidStr(next_oid), ShortId},
          published \in {PyBool(TRUE), PyBool(FALSE), PyStr("yes")},
          refused \in BOOLEAN :
         LET u == UpdatePublishStatus(articles_db, idstr, published, clock, refused)
         IN /\ (entry = "init_db" /\ published.t # "bool"
                   /\ idstr \in StoredIds(articles_db)) => refused
            /\ log.error + u.errors <= MaxLogged
            /\ log' = [log EXCEPT !.error = @ + u.errors]
            /\ articles_db' = u.coll
            /\ last' = [Outcome("update_publish_status", idstr, "", u.ret, <<>>)
                           EXCEPT !.value = published]
    /\ UNCHANGED <<wfVars, keywords_db, videos_db, transcripts_db, next_oid, clock,
                   processed, unprocessed, calls, raised, prev, ncalls>>

\* VideosDB.find_by_video_id(video_id)
EntFindByVideoId ==
    /\ \E v \in {PyStr("v1"), PyStr("v9")} :
         last' = Outcome("find_by_video_id", v, "", FALSE, FindByVideoId(videos_db, v))
    /\ UNCHANGED <<wfVars, dbVars, histVars, prev, ncalls>>

InitEntity ==
    /\ InitCommon /\ entry = "entities" /\ api_key = TRUE
    /\ regions = <<>> /\ pc = "Idle" /\ clock = MaxClock

NextEntity ==
    \/ EntInsertKeyword
    \/ EntInsertVideo
    \/ EntInsertTranscript
    \/ EntInsertArticle
    \/ EntFindByPlatformRegion

SpecEntity == InitEntity /\ [][NextEntity]_vars

\* Videos and Articles inserted, an Article's status updated and a Video looked
\* up by its external identifier, from outside the run
NextLookup ==
    \/ EntInsertVideo
    \/ EntInsertArticle
    \/ EntUpdatePublishStatus
    \/ EntFindByVideoId

\* the repositories on the store as BaseDB finds it, or on the one
\* init_mongodb() of scripts/init_db.py has set up before
InitLookup ==
    /\ InitCommon /\ entry \in {"entities", "init_db"} /\ api_key = TRUE
    /\ regions = <<>> /\ pc = "Idle" /\ clock = MaxClock

SpecLookup == InitLookup /\ [][NextLookup]_vars

(* ======================================================== properties *)
Range(f) == {f[k] : k \in DOMAIN f}
CallsOf(op) == {k \in 1..Len(calls) : calls[k].op = op}
CallsFor(op, arg) == {k \in CallsOf(op) : calls[k].arg = arg}
AfterDownloading == pc \in {"Transcribing", "Done"}

\* C1: in download_videos a failing download is isolated: the stage does not raise,
\* the mapping holds exactly the Video ids whose download succeeded, each with its
\* path, and Transcribing starts from that mapping.
C1_DownloadFailureIsolated ==
    /\ raised # "download"
    /\ AfterDownloading =>
          /\ DOMAIN path_map = {calls[k].arg : k \in {c \in CallsOf("download") : calls[c].ok}}
          /\ \A vid \in Range(video_ids) : CallsFor("download", vid) # {}

\* C2: once the first stage has begun no exception escapes run(): the run fails
\* only on the precondition, before any stage has started.
C2_RunFailsOnlyOnPrecondition ==
    pc = "Failed" =>
        (raised \in {"precondition", "construction"} /\ calls = <<>> /\ processed = <<>>)

\* C3: in search_videos a failure of the search, of the duration parsing or of the
\* Video insert skips that item only: nothing is raised and every Keyword id of
\* the input list is searched.
C3_SearchFailureSkipsOnlyItem ==
    /\ raised # "search"
    /\ pc \in {"Downloading", "Transcribing", "Done"} =>
          \A kid \in Range(keyword_ids) : CallsFor("search", kid) # {}

(* ---- the keyword normalization, stated on the records themselves ---- *)
HasFields(rec) == rec.is_map /\ rec.has_keyword /\ rec.has_rank
NumericRank(rec) ==
    rec.rank.t = "int" \/ (rec.rank.t = "str" /\ rec.rank.s \in Range(DecDigits))
TextKeyword(rec) == rec.keyword.t = "str"
KeywordText(rec) ==
    IF rec.keyword.t = "str" THEN rec.keyword.s ELSE DecDigits[rec.keyword.i + 1]
Handled(outcome) == {k \in 1..Len(processed) : processed[k].outcome = outcome}
StageClean ==
    /\ pc = "Returned" /\ unprocessed = 0 /\ Handled("aborted") = {}
    /\ \A k \in 1..Len(processed) : HasFields(processed[k].rec)

\* the score int() takes: an absent one counts as 0 (lines 118-120)
NumericScore(rec) ==
    rec.score.t \in {"none", "int"} \/ (rec.score.t = "str" /\ rec.score.s \in Range(DecDigits))
Coercible(rec) == NumericRank(rec) /\ NumericScore(rec)

\* C4 as stated: the malformed records, those with a rank or score that is no
\* number or a keyword of the wrong type, are exactly the dropped ones, and the
\* stage yields one id per other record.
C4_DropsWrongTypedKeyword ==
    /\ \A k \in 1..Len(processed) :
          LET p == processed[k]
          IN (HasFields(p.rec) /\ p.outcome # "aborted") =>
                (p.outcome = "dropped" <=> (~Coercible(p.rec) \/ ~TextKeyword(p.rec)))
    /\ StageClean =>
          /\ Len(keyword_ids) = Cardinality({k \in 1..Len(processed) :
                  Coercible(processed[k].rec) /\ TextKeyword(processed[k].rec)})
          /\ log.dropped = Cardinality({k \in 1..Len(processed) :
                  ~Coercible(processed[k].rec) \/ ~TextKeyword(processed[k].rec)})

\* C4 amended: the records whose rank, or whose score when there is one, int()
\* refuses are exactly the dropped ones, with one dropped-item log entry each; a
\* keyword of another type is coerced to text and the record inserted like its
\* well-formed siblings, so the stage yields one id per record whose rank and
\* score are numeric.
C4_DropsExactlyNonNumeric ==
    /\ \A k \in 1..Len(processed) :
          LET p == processed[k]
          IN HasFields(p.rec) =>
                /\ ~Coercible(p.rec) => p.outcome = "dropped"
                /\ Coercible(p.rec) => p.outcome \in {"inserted", "aborted"}
                /\ p.outcome = "inserted" =>
                      /\ p.id \in Range(keyword_ids)
                      /\ FindById(keywords_db, p.id).res # <<>>
                      /\ FindById(keywords_db, p.id).res[1].keyword = PyStr(KeywordText(p.rec))
    /\ log.dropped = Cardinality(Handled("dropped"))
    /\ Len(keyword_ids) = Cardinality(Handled("inserted"))
    /\ Len(keywords_db) = Cardinality(Handled("inserted"))
    /\ StageClean =>
          Len(keyword_ids) = Cardinality({k \in 1..Len(processed) :
                                             Coercible(processed[k].rec)})

\* a batch with a record dropped for its rank, one dropped for its score and,
\* after both, a sibling whose keyword was coerced and inserted
C4_Witness ==
    /\ StageClean
    /\ \E i, j, k \in 1..Len(processed) :
          /\ ~NumericRank(processed[i].rec) /\ processed[i].outcome = "dropped"
          /\ NumericRank(processed[j].rec) /\ ~NumericScore(processed[j].rec)
          /\ processed[j].outcome = "dropped"
          /\ i < k /\ j < k
          /\ ~TextKeyword(processed[k].rec) /\ processed[k].outcome = "inserted"

\* C5: no failure on one record leaves the loop over the records of its batch:
\* every record of every fetched batch is reached.
C5_RecordFailureStaysInLoop ==
    /\ Handled("aborted") = {}
    /\ unprocessed = 0

\* C6: a fetch() that raises aborts its own pair only: nothing leaves the stage,
\* every pair is fetched once, in order, and the ids inserted for the other pairs
\* are all in the returned list.
C6_FetchFailureAbortsOnlyItsPair ==
    /\ raised = "" /\ pc # "Failed"
    /\ \A k \in 1..Len(calls) : calls[k].op = "fetch" /\ calls[k].arg = k
    /\ pc = "Returned" => Len(calls) = Len(Pairs)
    /\ \A k \in 1..Len(processed) :
          /\ calls[processed[k].pair].ok
          /\ processed[k].outcome = "inserted" =>
                /\ processed[k].id \in Range(keyword_ids)
                /\ FindById(keywords_db, processed[k].id).res # <<>>

\* a failing pair between two pairs that each inserted a Keyword
C6_Witness ==
    /\ pc = "Returned" /\ Len(calls) = 3
    /\ calls[1].ok /\ ~calls[2].ok /\ calls[3].ok
    /\ \E i, j \in Handled("inserted") :
          /\ processed[i].pair = 1 /\ processed[j].pair = 3
          /\ {processed[i].id, processed[j].id} \subseteq Range(keyword_ids)

(* ---- Transcribing ---- *)
TranscriptsOf(vid) ==
    {k \in 1..Len(transcripts_db) : transcripts_db[k].video_id = ObjectId(vid).val}
\* the loop of transcribe_videos is past the k-th Video id
PastVideo(k) == pc = "Done" \/ (pc = "Transcribing" /\ k < pos)

\* C7: transcribe_videos never raises; a Video id of the download mapping gets
\* exactly one Transcript when the transcription and the insert both succeed and
\* none when either fails, and the loop goes on to the remaining videos.
C7_TranscribeIsolatesFailures ==
    /\ raised # "transcribe"
    /\ \A k \in 1..Len(video_ids) :
          LET vid == video_ids[k]
              stored == \E c \in CallsFor("insert_transcript", vid) : calls[c].ok
          IN /\ ~PastVideo(k) =>
                   (CallsFor("transcribe", vid) = {} /\ TranscriptsOf(vid) = {})
             /\ (PastVideo(k) /\ vid \in DOMAIN path_map) =>
                   /\ Cardinality(CallsFor("transcribe", vid)) = 1
                   /\ Cardinality(TranscriptsOf(vid)) = IF stored THEN 1 ELSE 0
                   /\ stored => \A c \in CallsFor("transcribe", vid) : calls[c].ok
             /\ (PastVideo(k) /\ vid \notin DOMAIN path_map) => TranscriptsOf(vid) = {}

\* a run in which the transcription of one video, or the insert of its
\* Transcript, fails and a later video still gets its Transcript
C7_Witness ==
    /\ pc = "Done"
    /\ \E i, j \in 1..Len(video_ids) :
          /\ i < j
          /\ \/ \E c \in CallsFor("transcribe", video_ids[i]) : ~calls[c].ok
             \/ \E c \in CallsFor("insert_transcript", video_ids[i]) : ~calls[c].ok
          /\ TranscriptsOf(video_ids[i]) = {}
          /\ Cardinality(TranscriptsOf(video_ids[j])) = 1

(* ---- run() as a whole ---- *)
TranscriptsCreated == Len(transcripts_db)

\* C11: when run() completes it returns a summary whose four counts are the
\* numbers of Keyword ids fetched, of Video ids found, of entries of the download
\* mapping and of Transcripts inserted in that run.
C11_RunReturnsSummary ==
    pc = "Done" =>
        /\ Len(run_result) = 1
        /\ run_result[1].t = "dict"
        /\ run_result[1].keywords_fetched = Len(keyword_ids)
        /\ run_result[1].videos_found = Len(video_ids)
        /\ run_result[1].videos_downloaded = Cardinality(DOMAIN path_map)
        /\ run_result[1].transcripts_created = TranscriptsCreated

VideosOf(kid) ==
    {k \in 1..Len(videos_db) : videos_db[k].keyword_id = ObjectId(kid).val}
\* the step is a search() that delivers no result
EmptySearchStep ==
    /\ pc = "Searching" /\ Len(calls') = Len(calls) + 1
    /\ calls'[Len(calls')].op = "search" /\ calls'[Len(calls')].ok
    /\ calls'[Len(calls')].n = 0
EmptyFetchHandled ==
    (/\ keyword_ids = <<>> /\ pc \notin {"Idle", "Fetching"}
     /\ raised \notin {"precondition", "construction"})
    => /\ pc # "Failed" /\ raised = ""
       /\ CallsOf("search") = {} /\ CallsOf("download") = {}
       /\ CallsOf("transcribe") = {}
       /\ video_ids = <<>> /\ DOMAIN path_map = {}
       /\ videos_db = <<>> /\ transcripts_db = <<>>
EmptySearchHandled ==
    \A c \in CallsOf("search") :
        (calls[c].ok /\ calls[c].n = 0) => VideosOf(calls[c].arg) = {}

\* C12: a stage may complete with zero items: when FetchingKeywords yields no
\* Keyword id nothing is raised, the later stages make no collaborator call and no
\* insert, and the run does not fail; a search that delivers no result raises
\* nothing, leaves its Keyword without Videos and the stage goes on with the
\* next Keyword id.
C12_ZeroItemsIsNotFatal ==
    /\ [](EmptyFetchHandled /\ EmptySearchHandled)
    /\ [][EmptySearchStep =>
             /\ pc' = "Searching" /\ pos' = pos + 1 /\ raised' = raised
             /\ UNCHANGED <<video_ids, videos_db, transcripts_db>>]_vars

\* a completed run in which one Keyword's search delivered nothing and a later
\* Keyword's search delivered a Video
C12_Witness ==
    /\ pc = "Done"
    /\ \E c, d \in CallsOf("search") :
          /\ c < d /\ calls[c].ok /\ calls[c].n = 0 /\ VideosOf(calls[c].arg) = {}
          /\ calls[d].ok /\ VideosOf(calls[d].arg) # {}

\* a completed run in which no Keyword was fetched
C12_WitnessNoKeyword ==
    /\ pc = "Done" /\ keyword_ids = <<>> /\ Cardinality(CallsOf("fetch")) = Len(Pairs)

\* C13: without the YouTube API key the run aborts before any stage starts: no
\* fetch, search, download or transcribe call is made and no Keyword, Video or
\* Transcript is inserted.
C13_MissingKeyAbortsBeforeStages ==
    ~api_key =>
        /\ pc \in {"Idle", "Failed"}
        /\ pc = "Failed" => raised = "precondition"
        /\ calls = <<>> /\ processed = <<>>
        /\ keyword_ids = <<>> /\ video_ids = <<>> /\ DOMAIN path_map = {}
        /\ keywords_db = <<>> /\ videos_db = <<>> /\ transcripts_db = <<>>

\* main has stopped on the missing key, with its one error entry
C13_Witness ==
    ~api_key /\ pc = "Failed" /\ raised = "precondition" /\ log.error = 1

(* ---- region codes ---- *)
\* c.lower(), the other case of the caller's code
LowerChar(c) ==
    CASE IsLetterOf(UpperLetters, c) -> LowerLetters[LetterIndex(UpperLetters, c)]
      [] c = KelvinSign -> "k"
      [] OTHER -> c
Lower(code) == [k \in 1..Len(code) |-> LowerChar(code[k])]
\* folding of the letter case: what a comparison that ignores case compares
FoldChar(c) == IF c = LongS THEN "s" ELSE LowerChar(c)
Fold(code) == [k \in 1..Len(code) |-> FoldChar(code[k])]
\* the code is, but for the case of its letters, one of the closed set
InClosedSet(code) == \E v \in RegionValues : Fold(code) = Fold(v)

\* C14: region resolution ignores the letter case: from_code(c) equals
\* from_code(c.upper()) and from_code(c.lower()) for every code string c, and the
\* value of a resolved Region is the upper-case canonical code.
C14_ResolutionIgnoresCase ==
    last.op = "from_code" =>
        /\ last.res = from_code(Upper(last.id))
        /\ last.res = from_code(Lower(last.id))
        /\ last.res # <<>> =>
              (last.res[1] \in RegionValues /\ Upper(last.res[1]) = last.res[1])

\* C15 as stated: resolving a code outside the closed set raises the invalid-region
\* error, through from_code and through the construction of a fetcher.
C15_UnknownCodeRaises ==
    (last.op \in {"from_code", "fetcher_init"} /\ ~InClosedSet(last.id))
    => (last.exc = "ValueError" /\ last.res = <<>>)

\* C15 amended: a code outside the closed set never resolves to a Region, neither
\* to a default one: from_code returns None and raises nothing, is_valid_code
\* returns False, and the construction of a fetcher raises ValueError.
C15_UnknownCodeYieldsNoRegion ==
    ~InClosedSet(last.id) =>
        /\ last.op = "from_code" => (last.exc = "" /\ last.res = <<>>)
        /\ last.op = "is_valid_code" => (last.exc = "" /\ last.ret = FALSE)
        /\ last.op = "fetcher_init" => (last.exc = "ValueError" /\ last.res = <<>>)

\* a fetcher was constructed with ZZ
C15_Witness ==
    /\ last.op = "fetcher_init" /\ last.id = <<"Z", "Z">>
    /\ last.exc = "ValueError" /\ last.res = <<>>

(* ---- durations ---- *)
FieldSeconds(f, factor) == IF f.present THEN f.n * factor ELSE 0
Parsed(text, seconds) == last.id = text => (last.exc = "" /\ last.res = <<seconds>>)

\* C16: parse_duration maps a duration PT[hH][mM][sS] with any subset of its tokens
\* to 3600*h + 60*m + s, an absent token counting 0: PT7M32S is 452, PT1H2M10S is
\* 3730, PT45S is 45, PT2H is 7200 and PT is 0.
C16_ParseDurationSumsTokens ==
    last.op = "parse_duration" =>
        /\ last.value.form =>
              /\ last.exc = ""
              /\ last.res = <<FieldSeconds(last.value.h, 3600)
                               + FieldSeconds(last.value.m, 60)
                               + FieldSeconds(last.value.s, 1)>>
        /\ Parsed(<<"P", "T", "7", "M", "3", "2", "S">>, 452)
        /\ Parsed(<<"P", "T", "1", "H", "2", "M", "1", "0", "S">>, 3730)
        /\ Parsed(<<"P", "T", "4", "5", "S">>, 45)
        /\ Parsed(<<"P", "T", "2", "H">>, 7200)
        /\ Parsed(<<"P", "T">>, 0)

\* PT1H2M10S was parsed
C16_Witness ==
    /\ last.op = "parse_duration" /\ last.value.form
    /\ last.id = <<"P", "T", "1", "H", "2", "M", "1", "0", "S">>
    /\ last.res = <<3730>>

(* ---- the finder queries and the construction of entities ---- *)
Matching(platform, region) ==
    {k \in 1..Len(keywords_db) : /\ keywords_db[k].platform = PyStr(platform)
                                 /\ keywords_db[k].region = PyStr(region)}

\* C17: find_by_platform_region returns exactly the stored Keywords of that
\* platform and region, by ascending rank.
C17_FindByPlatformRegionSorted ==
    last.op = "find_by_platform_region" =>
        /\ last.exc = ""
        /\ {last.res[k]._id : k \in 1..Len(last.res)}
              = {keywords_db[k]._id : k \in Matching(last.id[1], last.id[2])}
        /\ Len(last.res) = Cardinality(Matching(last.id[1], last.id[2]))
        /\ \A i, j \in 1..Len(last.res) :
              i < j => last.res[i].rank.i <= last.res[j].rank.i

InsertOps == {"insert_keyword", "insert_video", "insert_transcript", "insert_article"}
IntegerFields == {"rank", "score", "video_duration", "video_views", "video_likes",
                  "video_comments"}
OtherFields == {"metadata", "seo_metadata", "published"}
\* the payload has an integer field with a float or a text, a text field with
\* another value than a text, or a published that is no boolean
Loose(p) ==
    \E f \in DOMAIN p :
        \/ f \in IntegerFields /\ p[f].t \in {"float", "str"}
        \/ f \notin (IntegerFields \cup OtherFields) /\ p[f].t # "str"
        \/ f = "published" /\ p[f].t # "bool"
StoreOf(op) ==
    CASE op = "insert_keyword" -> keywords_db
      [] op = "insert_video" -> videos_db
      [] op = "insert_transcript" -> transcripts_db
      [] OTHER -> articles_db

\* C18: the construction of an entity is strict: an insert_* call whose payload
\* has an integer field holding a float or a text, a text field holding another
\* value than a text, or a published that is no boolean raises TypeError and
\* writes nothing; what is accepted is stored as it was given.
C18_StrictConstruction ==
    /\ []((last.op \in InsertOps /\ Loose(last.value)) => last.exc = "TypeError")
    /\ []((last.op \in InsertOps /\ last.exc = "") =>
            /\ FindById(StoreOf(last.op), last.id).res # <<>>
            /\ \A f \in DOMAIN last.value \ {"keyword_id", "video_id", "transcript_id"} :
                  FindById(StoreOf(last.op), last.id).res[1][f] = last.value[f])
    /\ [][(last'.op \in InsertOps /\ last'.exc # "") =>
             UNCHANGED <<keywords_db, videos_db, transcripts_db, articles_db, next_oid>>]_vars

\* an insert_video with a float duration was refused after a Video was stored
C18_Witness ==
    /\ last.op = "insert_video" /\ last.value.video_duration.t = "float"
    /\ last.exc = "TypeError" /\ Len(videos_db) = 1

(* ---- Keyword ids that resolve to nothing ---- *)
Unresolved(kid) == kid \notin StoredIds(keywords_db)
\* the loop of search_videos is past the k-th Keyword id
PastKeyword(k) == pc \notin {"Searching", "Failed"} \/ k < pos

\* C19: in search_videos a Keyword id that resolves to no stored Keyword gets no
\* search and no Video, is logged as a warning (one warning entry at least for
\* each such id), and the stage goes on with the next Keyword id.
C19_UnresolvedKeywordWarned ==
    /\ \A k \in 1..Len(keyword_ids) :
          Unresolved(keyword_ids[k]) =>
              (CallsFor("search", keyword_ids[k]) = {} /\ VideosOf(keyword_ids[k]) = {})
    /\ log.warning >= Cardinality({k \in 1..Len(keyword_ids) :
                                      PastKeyword(k) /\ Unresolved(keyword_ids[k])})
    /\ (pc = "Failed" /\ pos <= Len(keyword_ids)) => ~Unresolved(keyword_ids[pos])

(* ---- the Keyword a Video refers to ---- *)
\* the search that was issued last
LastSearch == calls[Len(calls)]
\* the step stores a new Video
VideoStored == Len(videos_db') = Len(videos_db) + 1
NoDanglingKeyword ==
    \A k \in 1..Len(videos_db) :
        /\ FindOne(keywords_db, videos_db[k].keyword_id) # <<>>
        /\ OidStr(videos_db[k].keyword_id) \in Range(keyword_ids)
        /\ \E c \in CallsFor("search", OidStr(videos_db[k].keyword_id)) :
              calls[c].ok /\ calls[c].n > 0

\* C20: every Video inserted by search_videos has the keyword_id of the Keyword
\* whose search produced it; that Keyword was resolved from the store before the
\* insert and is still in the store.
C20_VideoRefersToItsKeyword ==
    /\ []NoDanglingKeyword
    /\ [][VideoStored =>
             /\ calls # <<>> /\ LastSearch.op = "search" /\ LastSearch.ok
             /\ LastSearch.arg = keyword_ids[pos]
             /\ FindById(keywords_db, LastSearch.arg).res # <<>>
             /\ videos_db'[Len(videos_db')].keyword_id
                    = FindById(keywords_db, LastSearch.arg).res[1]._id
             /\ keywords_db' = keywords_db]_vars

\* two Videos found by the searches of two Keywords
C20_Witness ==
    /\ Len(videos_db) = 2 /\ Len(keywords_db) >= 2
    /\ videos_db[1].keyword_id # videos_db[2].keyword_id
    /\ NoDanglingKeyword

(* ---- the order of the items within a stage ---- *)
\* position of an id in a list of ids, 0 when it is not in the list
IndexIn(ids, id) ==
    IF \E k \in 1..Len(ids) : ids[k] = id
    THEN CHOOSE k \in 1..Len(ids) : ids[k] = id
    ELSE 0
\* the calls of one collaborator follow, one by one, the order of the input list
InInputOrder(op, ids) ==
    \A c, d \in CallsOf(op) :
        /\ IndexIn(ids, calls[c].arg) > 0
        /\ c < d => IndexIn(ids, calls[c].arg) < IndexIn(ids, calls[d].arg)
\* the items a search delivered are stored before the next search is issued
SearchFinishedBeforeNext ==
    \A c, d \in CallsOf("search") :
        (c < d /\ calls[c].ok) => Cardinality(VideosOf(calls[c].arg)) = calls[c].n
\* the list of Video ids is in the order of the Keywords, then of the results
VideoIdsInOrder ==
    /\ Len(video_ids) = Len(videos_db)
    /\ \A k \in 1..Len(video_ids) : video_ids[k] = OidStr(videos_db[k]._id)
    /\ \A j, k \in 1..Len(videos_db) :
          j < k => IndexIn(keyword_ids, OidStr(videos_db[j].keyword_id))
                      <= IndexIn(keyword_ids, OidStr(videos_db[k].keyword_id))

\* a step that stores a Video stores the first result not yet stored
StoresNextResult ==
    VideoStored =>
        (/\ videos_db'[Len(videos_db')].video_youtube_id = PyStr(Head(results).video_id)
         /\ results' = Tail(results)
         /\ video_ids' = Append(video_ids, OidStr(videos_db'[Len(videos_db')]._id)))
\* a step that calls a collaborator calls it for the item at hand, once the
\* results of the search before are all dealt with; the Transcript insert
\* follows the transcription of its Video at once
NewCall == calls'[Len(calls) + 1]
ItemAtHand ==
    IF NewCall.op \in {"fetch"} THEN pair_idx
    ELSE IF NewCall.op = "search" THEN keyword_ids[pos]
    ELSE video_ids[pos]
CallsItemAtHand ==
    Len(calls') > Len(calls) =>
        (/\ results = <<>>
         /\ NewCall.op # "insert_transcript"
         /\ NewCall.arg = ItemAtHand
         /\ Len(calls') <= Len(calls) + 2
         /\ (Len(calls') = Len(calls) + 2) =>
               (/\ NewCall.op = "transcribe"
                /\ calls'[Len(calls')].op = "insert_transcript"
                /\ calls'[Len(calls')].arg = ItemAtHand))

\* C21: within a stage the items are processed one at a time in the order of the
\* input list: the search, download and transcribe calls follow that order, the
\* call for an item is not made before the item before it is finished, its
\* insert included, and the output list is in the same order.
C21_ItemsInInputOrder ==
    /\ [](/\ InInputOrder("search", keyword_ids)
          /\ InInputOrder("download", video_ids)
          /\ InInputOrder("transcribe", video_ids)
          /\ InInputOrder("insert_transcript", video_ids)
          /\ SearchFinishedBeforeNext
          /\ VideoIdsInOrder)
    /\ [][StoresNextResult /\ CallsItemAtHand]_vars

\* a completed run that searched two Keywords, found a Video for each, and
\* downloaded and transcribed both
C21_Witness ==
    /\ pc = "Done" /\ Len(video_ids) = 2
    /\ videos_db[1].keyword_id # videos_db[2].keyword_id
    /\ Cardinality(CallsOf("download")) = 2 /\ Cardinality(CallsOf("transcribe")) = 2

(* ---- the order of the stages ---- *)
StageOrder == <<"Idle", "Fetching", "Searching", "Downloading", "Transcribing", "Done">>
StageIndex(p) == CHOOSE k \in 1..Len(StageOrder) : StageOrder[k] = p
\* the stage at hand is over its whole input list
StageFinished ==
    CASE pc = "Fetching" -> pair_idx > Len(Pairs) /\ batch = <<>>
      [] pc = "Searching" -> pos > Len(keyword_ids) /\ results = <<>>
      [] pc \in {"Downloading", "Transcribing"} -> pos > Len(video_ids)
      [] OTHER -> TRUE
\* a stage moves on to the next one only, and only when it is finished
NextStageOnly ==
    (pc' # pc /\ pc' # "Failed") =>
        /\ pc # "Failed"
        /\ StageIndex(pc') = StageIndex(pc) + 1
        /\ StageFinished
        /\ (pc' = "Done" \/ pos' = 1)
\* a stage works on its own variables only: the output of a stage is not
\* touched by the stages after it, and no stage makes the call of another
OwnWorkOnly ==
    /\ keyword_ids' # keyword_ids => pc = "Fetching"
    /\ video_ids' # video_ids => pc = "Searching"
    /\ path_map' # path_map => pc = "Downloading"
    /\ keywords_db' # keywords_db => pc = "Fetching"
    /\ videos_db' # videos_db => pc = "Searching"
    /\ transcripts_db' # transcripts_db => pc = "Transcribing"
    /\ Len(calls') > Len(calls) =>
          pc = (CASE NewCall.op = "fetch" -> "Fetching"
                  [] NewCall.op = "search" -> "Searching"
                  [] NewCall.op = "download" -> "Downloading"
                  [] OTHER -> "Transcribing")

\* C22: the stages of a run execute in the order FetchingKeywords,
\* SearchingVideos, DownloadingMedia, Transcribing, Done: a stage starts when the
\* stage before it is over its whole input list, works on the output of that
\* stage, runs once and is never entered again.
C22_StagesInOrder ==
    /\ [][NextStageOnly /\ OwnWorkOnly]_vars
    /\ [](/\ \A c \in CallsOf("search") : calls[c].arg \in Range(keyword_ids)
          /\ \A c \in CallsOf("download") : calls[c].arg \in Range(video_ids)
          /\ \A c \in CallsOf("transcribe") : calls[c].arg \in DOMAIN path_map)

\* a completed run in which every stage had an item to work on
C22_Witness ==
    /\ pc = "Done" /\ keyword_ids # <<>> /\ video_ids # <<>>
    /\ DOMAIN path_map # {} /\ transcripts_db # <<>>

(* ---- what FetchingKeywords stores ---- *)
BlankKeyword(rec) == HasFields(rec) /\ TextKeyword(rec) /\ Strip(rec.keyword.s) = ""

\* C23: the normalization rejects empty keywords: a fetched record whose keyword
\* is empty, or blank after trimming, is dropped, and no stored Keyword has an
\* empty (after trimming) keyword text.
C23_EmptyKeywordDropped ==
    /\ \A k \in 1..Len(processed) :
          BlankKeyword(processed[k].rec) => processed[k].outcome = "dropped"
    /\ \A k \in 1..Len(keywords_db) : Strip(keywords_db[k].keyword.s) # ""

\* C24: every Keyword stored by FetchingKeywords has as region the upper-case
\* value of a member of Region, however the region of the configuration is given.
C24_StoredRegionCanonical ==
    \A k \in 1..Len(keywords_db) : Chars(keywords_db[k].region.s) \in RegionValues

(* ---- what the stages leave in the store ---- *)
\* the collection after the step is the one before it, followed by new documents
Extends(old, new) ==
    /\ Len(new) >= Len(old)
    /\ \A k \in 1..Len(old) : new[k] = old[k]

\* C25: no stage updates or deletes an existing record: every Keyword, Video and
\* Transcript already stored keeps all of its fields, and a store changes only by
\* gaining newly inserted records.
C25_StoresOnlyGrow ==
    [][/\ Extends(keywords_db, keywords_db')
       /\ Extends(videos_db, videos_db')
       /\ Extends(transcripts_db, transcripts_db')
       /\ articles_db' = articles_db]_vars

\* a run that inserted into a store that already held a record, in every stage
C25_Witness ==
    /\ pc = "Done" /\ Len(keywords_db) >= 2 /\ Len(videos_db) >= 2
    /\ Len(transcripts_db) >= 2

\* the frame of a call of update_publish_status
StatusUpdateFrame ==
    (last'.op = "update_publish_status") =>
        /\ UNCHANGED <<keywords_db, videos_db, transcripts_db>>
        /\ Len(articles_db') = Len(articles_db)
        /\ \A k \in 1..Len(articles_db) :
              IF OidStr(articles_db[k]._id) = last'.id
              THEN \A f \in DOMAIN articles_db[k] \ {"published", "updated_at"} :
                      articles_db'[k][f] = articles_db[k][f]
              ELSE articles_db'[k] = articles_db[k]
PublishedIsBoolean ==
    \A k \in 1..Len(articles_db) : articles_db[k].published.t = "bool"

\* C26: update_publish_status(article_id, published) changes only published and
\* updated_at of the Article with that id, and published remains a boolean; all
\* other fields of that Article, all other Articles, and every Keyword, Video and
\* Transcript are left unchanged.
C26_UpdateChangesStatusOnly ==
    /\ []PublishedIsBoolean
    /\ [][StatusUpdateFrame]_vars

\* C27: find_by_video_id(v) returns a stored Video whose external identifier, as
\* insert_video wrote it, equals v whenever such a Video has been inserted, and
\* nothing otherwise.
C27_FindByVideoIdFinds ==
    (last.op = "find_by_video_id") =>
        LET hits == {k \in 1..Len(videos_db) : videos_db[k].video_youtube_id = last.id}
        IN IF hits = {} THEN last.res = <<>>
           ELSE last.res # <<>> /\ last.res[1] \in {videos_db[k] : k \in hits}

\* C28: the keys of the download mapping are Video ids that SearchingVideos
\* returned, every Transcript of the run refers to a key of the mapping, and so
\* transcripts created <= videos downloaded <= videos found.
C28_TranscriptsWithinDownloads ==
    /\ DOMAIN path_map \subseteq Range(video_ids)
    /\ \A k \in 1..Len(transcripts_db) :
          OidStr(transcripts_db[k].video_id) \in DOMAIN path_map
    /\ Len(transcripts_db) <= Cardinality(DOMAIN path_map)
    /\ Cardinality(DOMAIN path_map) <= Len(video_ids)

\* a finished run with a gap: two Videos downloaded, one Transcript
C28_Witness ==
    /\ pc = "Done" /\ Cardinality(DOMAIN path_map) = 2 /\ Len(transcripts_db) = 1

\* C29: in one run at most one Transcript is inserted per Video id: the
\* transcriber and insert_transcript are called at most once for each Video id.
C29_OneTranscriptPerVideo ==
    /\ \A j, k \in 1..Len(video_ids) : video_ids[j] = video_ids[k] => j = k
    /\ \A v \in Range(video_ids) :
          /\ Cardinality(CallsFor("transcribe", v)) <= 1
          /\ Cardinality(CallsFor("insert_transcript", v)) <= 1
          /\ Cardinality(TranscriptsOf(v)) <= 1

\* a finished run in which each of two Videos got its Transcript
C29_Witness ==
    /\ pc = "Done" /\ Len(video_ids) = 2
    /\ \A v \in Range(video_ids) :
          Cardinality(CallsFor("insert_transcript", v)) = 1
          /\ Cardinality(TranscriptsOf(v)) = 1

\* everything the run inserted so far is in the store, and every reference of a
\* stored record leads to a stored record
Resolves(ids, coll) == \A k \in 1..Len(ids) : ids[k] \in StoredIds(coll)
NothingLost ==
    /\ Len(keywords_db) = Cardinality(Handled("inserted"))
    /\ \A k \in Handled("inserted") : processed[k].id \in StoredIds(keywords_db)
    /\ Resolves(keyword_ids, keywords_db)
    /\ Len(videos_db) = Len(video_ids) /\ Resolves(video_ids, videos_db)
    /\ Len(transcripts_db) =
          Cardinality({c \in CallsOf("insert_transcript") : calls[c].ok})
    /\ \A k \in 1..Len(videos_db) :
          OidStr(videos_db[k].keyword_id) \in StoredIds(keywords_db)
    /\ \A k \in 1..Len(transcripts_db) :
          OidStr(transcripts_db[k].video_id) \in StoredIds(videos_db)
\* the step in which an exception leaves a stage leaves the store as it is
FailureKeepsStore ==
    (pc' = "Failed" /\ pc # "Failed") =>
        UNCHANGED <<keywords_db, videos_db, transcripts_db, articles_db>>

\* C30: completed work is not lost on failure: wherever a run is interrupted or
\* aborted by an exception, every Keyword, Video and Transcript inserted earlier
\* in the run is still stored, unchanged; what may be missing is the Videos of a
\* Keyword or the Transcript of a Video.
C30_CompletedWorkKept ==
    /\ []NothingLost
    /\ [][FailureKeepsStore /\ Extends(keywords_db, keywords_db')
          /\ Extends(videos_db, videos_db')]_vars

\* an exception left SearchingVideos after a Video had been inserted
C30_Witness ==
    /\ pc = "Failed" /\ raised = "search"
    /\ keywords_db # <<>> /\ videos_db # <<>>

(* ---- the repositories ---- *)
\* C8: a successful insert returns an id that find_by_id resolves to the inserted
\* record, whose created_at equals its updated_at.
C8_InsertStampsEqual ==
    /\ (last.op = "insert_keyword" /\ last.exc = "") =>
          /\ FindById(keywords_db, last.id).res # <<>>
          /\ LET d == FindById(keywords_db, last.id).res[1]
             IN d.created_at = d.updated_at
    /\ (last.op = "insert_article" /\ last.exc = "") =>
          /\ FindById(articles_db, last.id).res # <<>>
          /\ LET d == FindById(articles_db, last.id).res[1]
             IN d.created_at = d.updated_at

\* C9: update_publish_status called twice in a row on an existing Article with
\* the same value raises nothing, and the second call returns False.
C9_SecondUpdateReportsNoChange ==
    (/\ last.op = "update_publish_status" /\ prev.op = "update_publish_status"
     /\ last.id = prev.id /\ last.value = prev.value
     /\ last.id \in StoredIds(articles_db))
    => (last.exc = "" /\ last.ret = FALSE)

\* C10: find_by_id raises for no id string: one that identifies no stored record,
\* well-formed or not, gives an absent result.
C10_FindByIdNeverRaises ==
    last.op = "find_by_id" =>
        /\ last.exc = ""
        /\ last.id \notin (StoredIds(keywords_db) \cup StoredIds(articles_db)) =>
              last.res = <<>>

====
